---- MODULE Spec2Model ----
(***************************************************************************)
(* Model of the octopus short-link service: the Base32 encoder, the Bloom  *)
(* membership service, the MySQL and Redis repositories and the            *)
(* ShortLinkService operations Generate and Get, run by concurrent         *)
(* request handlers.  Every backend call of a handler is one atomic step.  *)
(***************************************************************************)
EXTENDS Integers, Sequences, FiniteSets, TLC

(* ---------------------------------------------------------------------- *)
(* Bounds of the model.                                                    *)
(* ---------------------------------------------------------------------- *)

\* concurrent request handlers
NumProcs == 2
\* distinct non-empty URLs a request can carry
NumURLs == 2
\* distinct non-empty parameter templates a request can carry
NumTemplates == 2
\* calls (Generate or Get) started in one behaviour
MaxCalls == 2
\* size of the code alphabet in the model (the source's alphabet has 32 symbols)
AlphabetLen == 2
\* retries per code length in the model (the source's loop runs 1000 times)
MaxRetry == 2
\* bits of the Bloom filter kept by the Redis module
BloomBits == 1
\* last instant of the clock
MaxNow == 1
\* adverse events in one behaviour: failed backend calls and interventions
\* (disable, sweep, key expiry, filter reset, module load or unload)
MaxEnv == 1

\* client addresses a visit can come from
NumClients == 2

\* the greatest count a source counter starts with
MaxHits == 1

\* the most visits the source counters of a code start with
MaxVisits == 4

(* ---------------------------------------------------------------------- *)
(* Program constants.                                                      *)
(* ---------------------------------------------------------------------- *)

MinLength == 4
MaxLength == 6

Procs == 1..NumProcs
URLs == 1..NumURLs
Templates == 0..NumTemplates
Digits == 0..(AlphabetLen - 1)

\* the request's url field: 0 is the empty string
URLInputs == {0} \cup URLs
\* the request's expire_at field: empty, malformed, or the RFC3339 text of instant 0
ExpireInputs == {"", "invalid", "T0"}
\* the Generate requests: every URL without template and expiry, and URL 1
\* with either a template or an expiry
Requests ==
    {r \in [url : URLInputs, tmpl : Templates, exp : ExpireInputs] :
        \/ r.tmpl = 0 /\ r.exp = ""
        \/ r.url = 1 /\ (r.tmpl = 0 \/ r.exp = "")}

(* ---------------------------------------------------------------------- *)
(* Encoder.                                                                *)
(* ---------------------------------------------------------------------- *)

\* an Encode that fills the digits from the first position
RECURSIVE EncodeDigitsForward(_, _)
EncodeDigitsForward(n, k) ==
    IF k = 0 THEN <<>>
    ELSE <<n % AlphabetLen>> \o EncodeDigitsForward(n \div AlphabetLen, k - 1)

RECURSIVE EncodeDigits(_, _)
EncodeDigits(n, k) ==
    IF k = 0 THEN <<>>
    ELSE Append(EncodeDigits(n \div AlphabetLen, k - 1), n % AlphabetLen)

\* Encode(n, length): out-of-range lengths fall back to MinLength; the digit
\* at position i is n % AlphabetLen, filled from the last position backwards.
Encode(n, length) ==
    LET l == IF length < MinLength \/ length > MaxLength THEN MinLength ELSE length
    IN  EncodeDigits(n, l)

RECURSIVE Decode(_)
Decode(s) ==
    IF s = <<>> THEN 0
    ELSE Decode(SubSeq(s, 1, Len(s) - 1)) * AlphabetLen + s[Len(s)]

\* Base32Alphabet, of which the first AlphabetLen symbols are in use
Base32Alphabet ==
    <<"A", "B", "C", "D", "E", "F", "G", "H", "I", "J", "K", "L", "M", "N", "O", "P",
      "Q", "R", "S", "T", "U", "V", "W", "X", "Y", "Z", "2", "3", "4", "5", "6", "7">>

\* the string Encode returns: result[i] = Base32Alphabet[digit]
EncodeText(n, length) ==
    [i \in 1..Len(Encode(n, length)) |-> Base32Alphabet[Encode(n, length)[i] + 1]]

\* the index Decode finds for a character: the first position of the
\* alphabet that holds it; none for a character that is not in the alphabet
IndexOf(ch) ==
    LET at == {i \in 0..(AlphabetLen - 1) : Base32Alphabet[i + 1] = ch}
    IN  IF at = {} THEN {} ELSE {CHOOSE i \in at : \A j \in at : i <= j}

\* Decode(s): <<result, err>>, result = result * alphabetLen + index over
\* the characters from the first; an unknown character is an error
RECURSIVE DecodeText(_)
DecodeText(s) ==
    IF s = <<>> THEN <<0, FALSE>>
    ELSE LET head == DecodeText(SubSeq(s, 1, Len(s) - 1))
             at   == IndexOf(s[Len(s)])
         IN  IF head[2] \/ at = {} THEN <<0, TRUE>>
             ELSE <<head[1] * AlphabetLen + (CHOOSE i \in at : TRUE), FALSE>>

\* hashString(url): a fixed hash per URL.  URLs 1 and 2 have one hash, as two
\* URLs whose FNV-1a hashes agree modulo the code space, so that the
\* candidate codes of different URLs coincide.
hashString(u) == (u - 1) \div 2

(* ---------------------------------------------------------------------- *)
(* Strings held by the cache: a URL (with its template suffix) or a code.  *)
(* ---------------------------------------------------------------------- *)

\* a URL whose text is that of URL 1 followed by ":" and the formatted
\* template 1, such as "https://x.com/p:map[a:1]" for "https://x.com/p"
KeyShapedURL == NumURLs + 1

\* the text of a URL, and of fmt.Sprintf("%s:%v", url, params) for a template
StrOfURL(u, t) ==
    IF u = KeyShapedURL /\ t = 0 THEN [k |-> "url", u |-> 1, t |-> 1, c |-> <<>>]
    ELSE [k |-> "url", u |-> u, t |-> t, c |-> <<>>]
StrOfCode(c) == [k |-> "code", u |-> 0, t |-> 0, c |-> c]
EmptyStr == [k |-> "", u |-> 0, t |-> 0, c |-> <<>>]

\* buildCacheKey(url, params): the url alone when params is empty
buildCacheKey(u, t) == IF t = 0 THEN StrOfURL(u, 0) ELSE StrOfURL(u, t)

(* ---------------------------------------------------------------------- *)
(* State.                                                                  *)
(* ---------------------------------------------------------------------- *)

VARIABLES
    db,        \* rows of table short_links
    nextId,    \* next auto-increment id
    cache,     \* Redis keys sl:<string> with their values, as key/value pairs
    bfBits,    \* bits set in the Bloom filter key shortlink:bloom
    fbKeys,    \* codes with a fallback key shortlink:bloom:fb:<code>
    bfAvail,   \* whether the BF.* commands are served
    now,       \* the clock
    pc,        \* per handler: the backend call it makes next
    req,       \* per handler: the request being served
    loc,       \* per handler: local variables of the call
    ret,       \* per handler: the result of its last finished call
    hist,      \* per handler: what its current or last call did (history)
    added,     \* codes whose Add returned nil since the last Reset (history)
    calls,     \* calls started so far
    envs,      \* adverse events so far
    rd,        \* per handler: its position in RedirectHandler.Redirect
    tasks,     \* goroutines started by Redirect and RecordAccess calls of clients
    live,      \* requests whose context is not cancelled
    pv,        \* Redis counters sl:pv:<code> (0: no key)
    uv,        \* members of the Redis sets sl:uv:<code>:<day>
    src,       \* Redis counters sl:source:<code>:<source>:<day> (0: no key)
    sent,      \* access-log messages delivered to RocketMQ
    blocked,   \* backends that no longer answer
    mqProducer,\* the producer the handler was built with
    pvExpired, \* codes whose PV key reached its TTL (history)
    finished,  \* the goroutine that ended last, as it ended (history)
    recorded,  \* per code: RecordAccess calls that have returned (history)
    visited,   \* code, day and client of the RecordAccess calls that have
               \* returned (history)
    out        \* what the last read of a client returned

\* state of the redirect path and of the analytics
avars == <<rd, tasks, live, pv, uv, src, sent, blocked, mqProducer, pvExpired,
           finished, recorded, visited, out>>

vars == <<db, nextId, cache, bfBits, fbKeys, bfAvail, now, pc, req, loc, ret,
          hist, added, calls, envs, avars>>

NoReq == [op |-> "", url |-> 0, tmpl |-> 0, exp |-> "", code |-> <<>>]
NoLoc == [length |-> 0, i |-> 0, shortCode |-> <<>>, cached |-> EmptyStr, expireAt |-> {}]
NoRet == [op |-> "", status |-> "", code |-> <<>>, url |-> EmptyStr]
NoHist == [writes |-> <<>>, tried |-> 0, skipped |-> FALSE, chkErr |-> FALSE,
           softFail |-> FALSE, durable |-> "", accepted |-> FALSE, saved |-> <<>>]

\* the codes visits are recorded for
AnCodes == {Encode(0, MinLength), Encode(1, MinLength)}
\* client addresses (c.ClientIP())
Clients == 1..NumClients
\* Referer headers: none, the URL of a known source, a text without a host
Referers == {"", "google", "nohost"}

\* extractSource(referer): "direct" without a referer, the name of a known
\* source, the host itself when it has no dot, and the empty string for a
\* referer whose URL has no host
extractSource(referer) ==
    IF referer = "" THEN "direct"
    ELSE IF referer = "google" THEN "google"
    ELSE IF referer = "http://localhost:8080/" THEN "localhost:8080"
    ELSE ""

Sources == {extractSource(r) : r \in Referers} \ {""}

\* the sources of every referer, one of them a host with a port
Labels == Sources \cup {extractSource("http://localhost:8080/")}

\* how the handler's mqProducer field is set: the nil interface, an interface
\* holding the nil *mq.Producer of main, or a started producer
MqKinds == {"nil", "nilptr", "live"}

NoRd == [pc |-> "idle", id |-> 0, code |-> <<>>, ip |-> 0, ref |-> "", resp |-> "",
         url |-> EmptyStr]

\* the days of the clock
Days == 0..MaxNow

\* a goroutine: the request and handler that started it (0: a client's own
\* call with a background context), the day it was started, its position,
\* the context it passes to the backend calls, the day in its visitorID, the
\* updates it attempted and the ones that were applied
Task(id, kind, owner, c, ip, ref, at, day) ==
    [id |-> id, kind |-> kind, owner |-> owner, code |-> c, ip |-> ip, ref |-> ref,
     pc |-> at, ctx |-> 0, day0 |-> day, vday |-> 0, tried |-> {}, applied |-> {}]

NoTask == Task(0, "", 0, <<>>, 0, "", "", 0)

\* nothing read yet
NoOut == [op |-> ""]

InitAnalytics ==
    /\ rd = [p \in Procs |-> NoRd]
    /\ tasks = {}
    /\ live = {}
    /\ pv = [c \in AnCodes |-> 0]
    /\ uv = {}
    /\ src = [k \in AnCodes \X Sources \X Days |-> 0]
    /\ sent = {}
    /\ blocked = {}
    /\ pvExpired = {}
    /\ finished = NoTask
    /\ recorded = [c \in AnCodes |-> 0]
    /\ visited = {}
    /\ out = NoOut

Init ==
    /\ db = {}
    /\ nextId = 1
    /\ cache = {}
    /\ bfBits = {}
    /\ fbKeys = {}
    /\ bfAvail \in BOOLEAN
    /\ now = 0
    /\ pc = [p \in Procs |-> "idle"]
    /\ req = [p \in Procs |-> NoReq]
    /\ loc = [p \in Procs |-> NoLoc]
    /\ ret = [p \in Procs |-> NoRet]
    /\ hist = [p \in Procs |-> NoHist]
    /\ added = {}
    /\ calls = 0
    /\ envs = 0
    /\ InitAnalytics
    /\ mqProducer = "live"

(* ---------------------------------------------------------------------- *)
(* MySQL repository.                                                       *)
(* ---------------------------------------------------------------------- *)

\* the row with the smallest primary key among rows (gorm's First)
First(rows) == CHOOSE r \in rows : \A q \in rows : r.id <= q.id

\* rows matched by "short_code = ? AND status = 1"
GetShortLinkByCode(d, codeStr) ==
    {r \in d : StrOfCode(r.code) = codeStr /\ r.status = 1}

\* look-up by URL that matches the disabled rows instead of the active ones
GetShortLinkByURLInactive(d, u) ==
    {r \in d : r.url = u /\ r.status = 0}

\* rows matched by "original_url = ? AND status = 1"
GetShortLinkByURL(d, u) ==
    {r \in d : r.url = u /\ r.status = 1}

\* count of rows matched by "short_code = ?" is positive
CheckExistsByCode(d, c) == \E r \in d : r.code = c

\* a table without the UNIQUE index on short_code
SaveShortLinkNoUniqueIndex(d, c) == TRUE

\* Create(sl): the UNIQUE index on short_code rejects a second row with the
\* same code
SaveShortLinkAllowed(d, c) == \A r \in d : r.code # c

\* rows left by "DELETE ... WHERE expire_at IS NOT NULL AND expire_at < now"
CleanupExpiredLinks(d, t) ==
    {r \in d : ~(r.expireAt # {} /\ \E e \in r.expireAt : e < t)}

\* an IsActive that does not look at expire_at
IsActiveIgnoringExpiry(r, t) == r.status = 1

\* ShortLink.IsActive
IsActive(r, t) ==
    IF r.status # 1 THEN FALSE
    ELSE IF r.expireAt # {} /\ (\E e \in r.expireAt : t > e) THEN FALSE
    ELSE TRUE

(* ---------------------------------------------------------------------- *)
(* Redis repository: the short-link cache.                                 *)
(* ---------------------------------------------------------------------- *)

\* GetShortLink(key): the values stored under the key (none on a miss)
CacheGet(c, key) == {e.val : e \in {x \in c : x.key = key}}

\* SaveShortLink(key, val, ttl): SET overwrites the key
CacheSet(c, key, val) == {x \in c : x.key # key} \cup {[key |-> key, val |-> val]}

(* ---------------------------------------------------------------------- *)
(* Bloom service.                                                          *)
(* ---------------------------------------------------------------------- *)

\* the bit of the filter a code hashes to
BloomBit(c) == (Decode(c) + Len(c)) % BloomBits

\* an Exists that answers "absent" when neither command reaches the store
BloomExistsSwallowed(bits, fb, avail, up, c) ==
    IF up /\ avail THEN <<BloomBit(c) \in bits, FALSE>>
    ELSE IF up THEN <<c \in fb, FALSE>>
    ELSE <<FALSE, FALSE>>

\* Exists(shortCode): <<result, err>>.  BF.EXISTS answers when the module
\* serves it; otherwise the fallback key is looked up, and a transport
\* error (up = FALSE) is returned as an error.
BloomExists(bits, fb, avail, up, c) ==
    IF up /\ avail THEN <<BloomBit(c) \in bits, FALSE>>
    ELSE IF up THEN <<c \in fb, FALSE>>
    ELSE <<FALSE, TRUE>>

\* Add(shortCode): <<bits', fallback keys', err>>.  BF.ADD when the module
\* serves it; otherwise SET of the fallback key.
BloomAdd(bits, fb, avail, up, c) ==
    IF up /\ avail THEN <<bits \cup {BloomBit(c)}, fb, FALSE>>
    ELSE IF up THEN <<bits, fb \cup {c}, FALSE>>
    ELSE <<bits, fb, TRUE>>

\* Reset(): DEL of the filter key only
BloomReset(bits, fb) == <<{}, fb>>

(* ---------------------------------------------------------------------- *)
(* ShortLinkService.Generate                                               *)
(* ---------------------------------------------------------------------- *)

Row(id, c, u, t, e) ==
    [id |-> id, code |-> c, url |-> u, tmpl |-> t, expireAt |-> e, status |-> 1]

\* buildResponse(sl) as the result of a successful Generate
GenOk(r) == [op |-> "Generate", status |-> "ok", code |-> r.code, url |-> StrOfURL(r.url, 0)]
GenErr(st) == [op |-> "Generate", status |-> st, code |-> <<>>, url |-> EmptyStr]

\* a backend call that fails (ok = FALSE) uses up one adverse event
Outcome(ok) ==
    IF ok THEN envs' = envs ELSE envs < MaxEnv /\ envs' = envs + 1

\* the handler returns r
Return(p, r) ==
    /\ pc' = [pc EXCEPT ![p] = "idle"]
    /\ ret' = [ret EXCEPT ![p] = r]
    /\ loc' = [loc EXCEPT ![p] = NoLoc]

\* a Generate that does not parse expire_at before it calls the backends
RejectsEmptyURLOnly(u, e) == IF u = 0 THEN "invalid" ELSE ""

\* the checks at the head of Generate: ErrInvalidURL for an empty url, then
\* the error of time.Parse for a malformed expire_at; "" when both pass
Rejects(u, e) ==
    IF u = 0 THEN "invalid" ELSE IF e = "invalid" THEN "badexpire" ELSE ""

\* Generate is called: the url and expire_at checks come before any backend call
GenerateStart(p, u, t, e) ==
    /\ pc[p] = "idle"
    /\ calls < MaxCalls
    /\ calls' = calls + 1
    /\ req' = [req EXCEPT ![p] = [op |-> "Generate", url |-> u, tmpl |-> t, exp |-> e, code |-> <<>>]]
    /\ hist' = [hist EXCEPT ![p] = NoHist]
    /\ IF Rejects(u, e) # "" THEN Return(p, GenErr(Rejects(u, e)))
       ELSE /\ pc' = [pc EXCEPT ![p] = "GetCache"]
            /\ loc' = [loc EXCEPT ![p] = [NoLoc EXCEPT !.expireAt = IF e = "T0" THEN {0} ELSE {}]]
            /\ ret' = [ret EXCEPT ![p] = NoRet]
    /\ UNCHANGED <<db, nextId, cache, bfBits, fbKeys, bfAvail, now, added, envs>>
    /\ UNCHANGED avars

\* redisRepo.GetShortLink(cacheKey): a hit needs err == nil and a non-empty value
GenGetCache(p, ok) ==
    /\ Outcome(ok)
    /\ pc[p] = "GetCache"
    /\ LET hit == IF ok THEN CacheGet(cache, buildCacheKey(req[p].url, req[p].tmpl)) ELSE {}
       IN  IF hit # {}
           THEN /\ pc' = [pc EXCEPT ![p] = "GetByCode"]
                /\ loc' = [loc EXCEPT ![p].cached = CHOOSE v \in hit : TRUE]
           ELSE /\ pc' = [pc EXCEPT ![p] = "GetByURL"]
                /\ loc' = loc
    /\ UNCHANGED <<db, nextId, cache, bfBits, fbKeys, bfAvail, now, req, ret, hist, added, calls>>
    /\ UNCHANGED avars

\* mysqlRepo.GetShortLinkByCode(cachedCode): any error falls through to the
\* look-up by URL
GenGetByCode(p, ok) ==
    /\ Outcome(ok)
    /\ pc[p] = "GetByCode"
    /\ LET rows == IF ok THEN GetShortLinkByCode(db, loc[p].cached) ELSE {}
       IN  IF rows # {}
           THEN Return(p, GenOk(First(rows)))
           ELSE /\ pc' = [pc EXCEPT ![p] = "GetByURL"]
                /\ UNCHANGED <<loc, ret>>
    /\ UNCHANGED <<db, nextId, cache, bfBits, fbKeys, bfAvail, now, req, hist, added, calls>>
    /\ UNCHANGED avars

\* the first candidate of the collision loop
FirstAttempt(p) ==
    [loc[p] EXCEPT !.length = MinLength, !.i = 0,
                   !.shortCode = Encode(hashString(req[p].url), MinLength)]

\* mysqlRepo.GetShortLinkByURL(req.URL): an existing row is cached and returned,
\* any error starts the collision loop
GenGetByURL(p, ok) ==
    /\ Outcome(ok)
    /\ pc[p] = "GetByURL"
    /\ LET rows == IF ok THEN GetShortLinkByURL(db, req[p].url) ELSE {}
       IN  IF rows # {}
           THEN /\ pc' = [pc EXCEPT ![p] = "SaveDedup"]
                /\ loc' = [loc EXCEPT ![p].shortCode = First(rows).code]
           ELSE /\ pc' = [pc EXCEPT ![p] = "BloomExists"]
                /\ loc' = [loc EXCEPT ![p] = FirstAttempt(p)]
    /\ UNCHANGED <<db, nextId, cache, bfBits, fbKeys, bfAvail, now, req, ret, hist, added, calls>>
    /\ UNCHANGED avars

\* redisRepo.SaveShortLink(cacheKey, existing.ShortCode); its error is ignored
GenSaveDedup(p, ok) ==
    /\ Outcome(ok)
    /\ pc[p] = "SaveDedup"
    /\ cache' = IF ok THEN CacheSet(cache, buildCacheKey(req[p].url, req[p].tmpl),
                                    StrOfCode(loc[p].shortCode))
                ELSE cache
    /\ hist' = [hist EXCEPT ![p].writes = IF ok THEN Append(@, "key") ELSE @,
                            ![p].softFail = @ \/ ~ok]
    /\ Return(p, [op |-> "Generate", status |-> "ok", code |-> loc[p].shortCode,
                  url |-> StrOfURL(req[p].url, 0)])
    /\ UNCHANGED <<db, nextId, bfBits, fbKeys, bfAvail, now, req, added, calls>>
    /\ UNCHANGED avars

\* a loop whose offset test is off by one (i <= 1000 in place of i < 1000)
NextAttemptOffByOne(p) ==
    IF loc[p].i + 1 <= MaxRetry
    THEN /\ pc' = [pc EXCEPT ![p] = "BloomExists"]
         /\ loc' = [loc EXCEPT ![p].i = @ + 1,
                               ![p].shortCode = Encode(hashString(req[p].url) + loc[p].i + 1,
                                                       loc[p].length)]
         /\ ret' = ret
    ELSE IF loc[p].length + 1 <= MaxLength
    THEN /\ pc' = [pc EXCEPT ![p] = "BloomExists"]
         /\ loc' = [loc EXCEPT ![p].i = 0,
                               ![p].length = @ + 1,
                               ![p].shortCode = Encode(hashString(req[p].url),
                                                       loc[p].length + 1)]
         /\ ret' = ret
    ELSE Return(p, GenErr("capacity"))

\* the loop moves on: next offset, then next length, then ErrMaxCapacityReached
NextAttempt(p) ==
    IF loc[p].i + 1 < MaxRetry
    THEN /\ pc' = [pc EXCEPT ![p] = "BloomExists"]
         /\ loc' = [loc EXCEPT ![p].i = @ + 1,
                               ![p].shortCode = Encode(hashString(req[p].url) + loc[p].i + 1,
                                                       loc[p].length)]
         /\ ret' = ret
    ELSE IF loc[p].length + 1 <= MaxLength
    THEN /\ pc' = [pc EXCEPT ![p] = "BloomExists"]
         /\ loc' = [loc EXCEPT ![p].i = 0,
                               ![p].length = @ + 1,
                               ![p].shortCode = Encode(hashString(req[p].url),
                                                       loc[p].length + 1)]
         /\ ret' = ret
    ELSE Return(p, GenErr("capacity"))

\* whether the loop goes on to the store's check after the filter's answer
NeedsStoreCheck(exists, err) == err \/ ~exists

\* bloomSvc.Exists(shortCode) in the collision loop
GenBloomExists(p, up) ==
    /\ Outcome(up)
    /\ pc[p] = "BloomExists"
    /\ LET res == BloomExists(bfBits, fbKeys, bfAvail, up, loc[p].shortCode)
       IN  IF NeedsStoreCheck(res[1], res[2])
           THEN /\ pc' = [pc EXCEPT ![p] = "CheckExists"]
                /\ hist' = [hist EXCEPT ![p].tried = @ + 1]
                /\ UNCHANGED <<loc, ret>>
           ELSE /\ hist' = [hist EXCEPT ![p].tried = @ + 1, ![p].skipped = TRUE]
                /\ NextAttempt(p)
    /\ UNCHANGED <<db, nextId, cache, bfBits, fbKeys, bfAvail, now, req, added, calls>>
    /\ UNCHANGED avars

\* what the loop takes as the store's answer: the count is 0 when the query fails
ActualExists(d, c, ok) == IF ok THEN CheckExistsByCode(d, c) ELSE FALSE

\* mysqlRepo.CheckExistsByCode(shortCode) in the collision loop; the error is dropped
GenCheckExists(p, ok) ==
    /\ Outcome(ok)
    /\ pc[p] = "CheckExists"
    /\ hist' = [hist EXCEPT ![p].chkErr = ~ok,
                            ![p].accepted = ~ActualExists(db, loc[p].shortCode, ok)]
    /\ IF ~ActualExists(db, loc[p].shortCode, ok)
       THEN /\ pc' = [pc EXCEPT ![p] = "SaveMySQL"]
            /\ UNCHANGED <<loc, ret>>
       ELSE NextAttempt(p)
    /\ UNCHANGED <<db, nextId, cache, bfBits, fbKeys, bfAvail, now, req, added, calls>>
    /\ UNCHANGED avars

\* a Generate that fills the cache before it looks at the error of the save
SaveFailedAfterCaching(p) ==
    /\ Return(p, GenErr("persist"))
    /\ cache' = CacheSet(cache, buildCacheKey(req[p].url, req[p].tmpl),
                         StrOfCode(loc[p].shortCode))
    /\ hist' = [hist EXCEPT ![p].writes = Append(@, "key")]

\* a Generate that tries the next candidate when the save is rejected
SaveFailedRetries(p) ==
    /\ NextAttempt(p)
    /\ UNCHANGED <<cache, hist>>

\* a Generate that goes on to the cache writes when the save failed
SaveFailedIgnored(p) ==
    /\ pc' = [pc EXCEPT ![p] = "SaveCache1"]
    /\ UNCHANGED <<loc, ret, cache, hist>>

\* what Generate does when mysqlRepo.SaveShortLink returned an error
SaveFailed(p) ==
    /\ Return(p, GenErr("persist"))
    /\ UNCHANGED <<cache, hist>>

\* mysqlRepo.SaveShortLink(sl)
GenSaveMySQL(p, ok) ==
    /\ Outcome(ok)
    /\ pc[p] = "SaveMySQL"
    /\ IF ok /\ SaveShortLinkAllowed(db, loc[p].shortCode)
       THEN /\ db' = db \cup {Row(nextId, loc[p].shortCode, req[p].url, req[p].tmpl,
                                  loc[p].expireAt)}
            /\ nextId' = nextId + 1
            /\ pc' = [pc EXCEPT ![p] = "SaveCache1"]
            /\ hist' = [hist EXCEPT ![p].writes = Append(@, "db"),
                                    ![p].saved = loc[p].shortCode]
            /\ UNCHANGED <<loc, ret, cache>>
       ELSE /\ SaveFailed(p)
            /\ UNCHANGED <<db, nextId>>
    /\ UNCHANGED <<bfBits, fbKeys, bfAvail, now, req, added, calls>>
    /\ UNCHANGED avars

\* redisRepo.SaveShortLink(cacheKey, shortCode); its error is ignored
GenSaveCache1(p, ok) ==
    /\ Outcome(ok)
    /\ pc[p] = "SaveCache1"
    /\ cache' = IF ok THEN CacheSet(cache, buildCacheKey(req[p].url, req[p].tmpl),
                                    StrOfCode(loc[p].shortCode))
                ELSE cache
    /\ hist' = [hist EXCEPT ![p].writes = IF ok THEN Append(@, "key") ELSE @,
                            ![p].softFail = @ \/ ~ok]
    /\ pc' = [pc EXCEPT ![p] = "SaveCache2"]
    /\ UNCHANGED <<db, nextId, bfBits, fbKeys, bfAvail, now, req, loc, ret, added, calls>>
    /\ UNCHANGED avars

\* redisRepo.SaveShortLink(shortCode, req.URL); its error is ignored
GenSaveCache2(p, ok) ==
    /\ Outcome(ok)
    /\ pc[p] = "SaveCache2"
    /\ cache' = IF ok THEN CacheSet(cache, StrOfCode(loc[p].shortCode), StrOfURL(req[p].url, 0))
                ELSE cache
    /\ hist' = [hist EXCEPT ![p].writes = IF ok THEN Append(@, "code") ELSE @,
                            ![p].softFail = @ \/ ~ok]
    /\ pc' = [pc EXCEPT ![p] = "BloomAdd"]
    /\ UNCHANGED <<db, nextId, bfBits, fbKeys, bfAvail, now, req, loc, ret, added, calls>>
    /\ UNCHANGED avars

\* a Generate that returns the error of bloomSvc.Add
AfterBloomAddFatal(p, err) ==
    IF err THEN Return(p, GenErr("persist"))
    ELSE Return(p, [op |-> "Generate", status |-> "ok", code |-> loc[p].shortCode,
                    url |-> StrOfURL(req[p].url, 0)])

\* what Generate returns after bloomSvc.Add, whose error is only logged
AfterBloomAdd(p, err) ==
    Return(p, [op |-> "Generate", status |-> "ok", code |-> loc[p].shortCode,
               url |-> StrOfURL(req[p].url, 0)])

\* bloomSvc.Add(shortCode)
GenBloomAdd(p, up) ==
    /\ Outcome(up)
    /\ pc[p] = "BloomAdd"
    /\ LET res == BloomAdd(bfBits, fbKeys, bfAvail, up, loc[p].shortCode)
       IN  /\ bfBits' = res[1]
           /\ fbKeys' = res[2]
           /\ added' = IF res[3] THEN added ELSE added \cup {loc[p].shortCode}
           /\ hist' = [hist EXCEPT ![p].writes = IF res[3] THEN @ ELSE Append(@, "bloom"),
                                   ![p].softFail = @ \/ res[3]]
           /\ AfterBloomAdd(p, res[3])
    /\ UNCHANGED <<db, nextId, cache, bfAvail, now, req, calls>>
    /\ UNCHANGED avars

(* ---------------------------------------------------------------------- *)
(* ShortLinkService.Get                                                    *)
(* ---------------------------------------------------------------------- *)

GetOk(c, u) == [op |-> "Get", status |-> "ok", code |-> c, url |-> u]
GetErr(c, st) == [op |-> "Get", status |-> st, code |-> c, url |-> EmptyStr]

\* the durable state of a code (history only): what table short_links holds
\* for it, whatever the status
Durable(d, c, t) ==
    IF ~\E r \in d : r.code = c THEN "absent"
    ELSE LET r == CHOOSE q \in d : q.code = c
         IN  IF r.status # 1 THEN "disabled"
             ELSE IF ~IsActive(r, t) THEN "expired"
             ELSE "active"

\* the short codes a Get is called with: the stored and cached ones and one more
CodeInputs ==
    {r.code : r \in db} \cup {e.key.c : e \in {x \in cache : x.key.k = "code"}}
        \cup {Encode(0, MinLength)}

\* Get is called
GetStart(p, c) ==
    /\ pc[p] = "idle"
    /\ calls < MaxCalls
    /\ calls' = calls + 1
    /\ req' = [req EXCEPT ![p] = [op |-> "Get", url |-> 0, tmpl |-> 0, exp |-> "", code |-> c]]
    /\ hist' = [hist EXCEPT ![p] = NoHist]
    /\ pc' = [pc EXCEPT ![p] = "rGetCache"]
    /\ ret' = [ret EXCEPT ![p] = NoRet]
    /\ loc' = [loc EXCEPT ![p] = NoLoc]
    /\ UNCHANGED <<db, nextId, cache, bfBits, fbKeys, bfAvail, now, added, envs>>
    /\ UNCHANGED avars

\* redisRepo.GetShortLink(shortCode): a hit is returned as it is
GetGetCache(p, ok) ==
    /\ Outcome(ok)
    /\ pc[p] = "rGetCache"
    /\ LET hit == IF ok THEN CacheGet(cache, StrOfCode(req[p].code)) ELSE {}
       IN  IF hit # {}
           THEN /\ Return(p, GetOk(req[p].code, CHOOSE v \in hit : TRUE))
                /\ hist' = [hist EXCEPT ![p].durable = Durable(db, req[p].code, now)]
           ELSE /\ pc' = [pc EXCEPT ![p] = "rGetByCode"]
                /\ hist' = [hist EXCEPT ![p].softFail = @ \/ ~ok]
                /\ UNCHANGED <<loc, ret>>
    /\ UNCHANGED <<db, nextId, cache, bfBits, fbKeys, bfAvail, now, req, added, calls>>
    /\ UNCHANGED avars

\* mysqlRepo.GetShortLinkByCode(shortCode), then sl.IsActive()
GetGetByCode(p, ok) ==
    /\ Outcome(ok)
    /\ pc[p] = "rGetByCode"
    /\ hist' = [hist EXCEPT ![p].durable = IF ok THEN Durable(db, req[p].code, now) ELSE "error"]
    /\ LET rows == IF ok THEN GetShortLinkByCode(db, StrOfCode(req[p].code)) ELSE {}
       IN  IF rows = {} THEN Return(p, GetErr(req[p].code, "notfound"))
           ELSE IF ~IsActive(First(rows), now) THEN Return(p, GetErr(req[p].code, "expired"))
           ELSE /\ pc' = [pc EXCEPT ![p] = "rSaveCache"]
                /\ loc' = [loc EXCEPT ![p].cached = StrOfURL(First(rows).url, 0)]
                /\ ret' = ret
    /\ UNCHANGED <<db, nextId, cache, bfBits, fbKeys, bfAvail, now, req, added, calls>>
    /\ UNCHANGED avars

\* what Get returns after redisRepo.SaveShortLink, whose error is ignored
AfterSaveCache(p, ok) == Return(p, GetOk(req[p].code, loc[p].cached))

\* redisRepo.SaveShortLink(shortCode, sl.OriginalURL)
GetSaveCache(p, ok) ==
    /\ Outcome(ok)
    /\ pc[p] = "rSaveCache"
    /\ cache' = IF ok THEN CacheSet(cache, StrOfCode(req[p].code), loc[p].cached) ELSE cache
    /\ hist' = [hist EXCEPT ![p].writes = IF ok THEN Append(@, "code") ELSE @,
                            ![p].softFail = @ \/ ~ok]
    /\ AfterSaveCache(p, ok)
    /\ UNCHANGED <<db, nextId, bfBits, fbKeys, bfAvail, now, req, added, calls>>
    /\ UNCHANGED avars

(* ---------------------------------------------------------------------- *)
(* The environment: the clock, the operator and the Redis server.          *)
(* ---------------------------------------------------------------------- *)

\* time passes; the clock is only read against a stored expire_at
Tick ==
    /\ now < MaxNow
    /\ \E r \in db : r.expireAt # {}
    /\ now' = now + 1
    /\ UNCHANGED <<db, nextId, cache, bfBits, fbKeys, bfAvail, pc, req, loc, ret, hist,
                   added, calls, envs>>
    /\ UNCHANGED avars

\* a link is disabled: status 1 becomes 0
Disable(r) ==
    /\ envs < MaxEnv
    /\ r \in db /\ r.status = 1
    /\ db' = (db \ {r}) \cup {[r EXCEPT !.status = 0]}
    /\ envs' = envs + 1
    /\ UNCHANGED <<nextId, cache, bfBits, fbKeys, bfAvail, now, pc, req, loc, ret, hist,
                   added, calls>>
    /\ UNCHANGED avars

\* the periodic sweep: MySQLRepository.CleanupExpiredLinks
Cleanup ==
    /\ CleanupExpiredLinks(db, now) # db
    /\ db' = CleanupExpiredLinks(db, now)
    /\ UNCHANGED <<nextId, cache, bfBits, fbKeys, bfAvail, now, pc, req, loc, ret, hist,
                   added, calls, envs>>
    /\ UNCHANGED avars

\* a cache key reaches its TTL
Evict(e) ==
    /\ envs < MaxEnv
    /\ e \in cache
    /\ cache' = cache \ {e}
    /\ envs' = envs + 1
    /\ UNCHANGED <<db, nextId, bfBits, fbKeys, bfAvail, now, pc, req, loc, ret, hist,
                   added, calls>>
    /\ UNCHANGED avars

\* the Redis server starts or stops serving the BF.* commands
SetBloomAvail ==
    /\ envs < MaxEnv
    /\ bfAvail' = ~bfAvail
    /\ envs' = envs + 1
    /\ UNCHANGED <<db, nextId, cache, bfBits, fbKeys, now, pc, req, loc, ret, hist,
                   added, calls>>
    /\ UNCHANGED avars

\* BloomService.Reset
Reset ==
    /\ envs < MaxEnv
    /\ bfBits # {} \/ added # {}
    /\ bfBits' = BloomReset(bfBits, fbKeys)[1]
    /\ fbKeys' = BloomReset(bfBits, fbKeys)[2]
    /\ added' = {}
    /\ envs' = envs + 1
    /\ UNCHANGED <<db, nextId, cache, bfAvail, now, pc, req, loc, ret, hist, calls>>
    /\ UNCHANGED avars

(* ---------------------------------------------------------------------- *)
(* Redis repository: the analytics counters.                               *)
(* ---------------------------------------------------------------------- *)

\* INCR key: the counter is read, incremented and written in one command
RedisIncr(m, k) == [m EXCEPT ![k] = @ + 1]

\* a counter written by SET key 1 in place of INCR
RedisSetOne(m, k) == [m EXCEPT ![k] = 1]

\* IncrementPV(shortCode)
IncrementPV(m, c) == RedisIncr(m, c)

\* GetStats(shortCode).PV: GetPV, and 0 when GetPV fails on a missing key
GetStatsPV(m, c) == m[c]

\* the visitorID of RecordAccess: the day of its clock read and the client IP
VisitorID(day, ip) == <<day, ip>>

\* AddUV(shortCode, visitorID): SADD to the set of the day AddUV reads from
\* the clock
AddUV(u, c, day, visitorID) == u \cup {[code |-> c, day |-> day, visitor |-> visitorID]}

\* AddSource(shortCode, source): INCR of the counter of the day
AddSource(m, c, source, day) == RedisIncr(m, <<c, source, day>>)

\* GetPV(shortCode): <<count, err>>.  GET of a missing key is an error, as is
\* a failed read.
GetPV(m, c, fail) == IF fail \/ m[c] = 0 THEN <<0, TRUE>> ELSE <<m[c], FALSE>>

\* GetUV(shortCode): <<count, err>>.  SCAN of the per-day sets of the code,
\* then SCARD of each; a set whose SCARD fails is left out of the sum, and
\* only a failed SCAN is an error.
GetUV(u, c, scanFail, skipped) ==
    IF scanFail THEN <<0, TRUE>>
    ELSE <<Cardinality({e \in u : e.code = c /\ e.day \notin skipped}), FALSE>>

\* a GetStats that returns the error of a read
StatsErrHard(pvErr, uvErr) == pvErr \/ uvErr

\* the error GetStats returns: the errors of the reads are logged
StatsErr(pvErr, uvErr) == FALSE

\* AnalyticsService.GetStats(shortCode): a value whose read failed is 0
GetStats(m, u, c, pvFail, scanFail, skipped) ==
    LET p == GetPV(m, c, pvFail)
        v == GetUV(u, c, scanFail, skipped)
    IN  [op |-> "GetStats", code |-> c,
         pv |-> IF p[2] THEN 0 ELSE p[1],
         uv |-> IF v[2] THEN 0 ELSE v[1],
         err |-> StatsErr(p[2], v[2])]

\* a source label as its parts between colons: a host with a port has two
Segs(source) == IF source = "localhost:8080" THEN <<"localhost", "8080">> ELSE <<source>>

\* sourceKey(shortCode), as its parts between colons
sourceKey(c) == <<"sl", "source", c>>

\* the key AddSource increments: sourceKey, the source, the day
DailySourceKey(c, source, day) == sourceKey(c) \o Segs(source) \o <<day>>

\* the source counters as Redis keys with their values
SourceKeys(m) ==
    {[key |-> DailySourceKey(k[1], k[2], k[3]), val |-> m[k]] :
        k \in {j \in DOMAIN m : m[j] > 0}}

\* the key matches the pattern sourceKey(shortCode):*
MatchesPattern(key, c) ==
    /\ Len(key) > Len(sourceKey(c))
    /\ SubSeq(key, 1, Len(sourceKey(c))) = sourceKey(c)

\* the source name GetSources takes from a key: what follows the prefix,
\* cut at its last colon
SourceName(key, c) ==
    LET rest == SubSeq(key, Len(sourceKey(c)) + 1, Len(key))
    IN  IF Len(rest) > 1 THEN SubSeq(rest, 1, Len(rest) - 1) ELSE rest

RECURSIVE SumVals(_)
SumVals(S) ==
    IF S = {} THEN 0
    ELSE LET e == CHOOSE x \in S : TRUE IN e.val + SumVals(S \ {e})

\* GetSources(shortCode): <<counts by source name, err>>.  Every key the SCAN
\* returns is read and added to the count of its source name; a key whose
\* GET fails is left out; the error is that of the SCAN.
GetSources(keys, c, scanFail, unread) ==
    LET read  == {e \in keys : MatchesPattern(e.key, c) /\ e.key \notin unread}
        names == {SourceName(e.key, c) : e \in read}
    IN  <<[n \in names |-> SumVals({e \in read : SourceName(e.key, c) = n})], scanFail>>

\* the orders in which a map can be iterated
Orders(S) ==
    {f \in [1..Cardinality(S) -> S] : \A i, j \in 1..Cardinality(S) : f[i] = f[j] => i = j}

\* the two loops of getTopSources: stats[i] and stats[j] are exchanged when
\* stats[j] has the greater count
RECURSIVE ExchangeSort(_, _, _)
ExchangeSort(stats, i, j) ==
    IF i > Len(stats) THEN stats
    ELSE IF j > Len(stats) THEN ExchangeSort(stats, i + 1, i + 2)
    ELSE IF stats[j].count > stats[i].count
    THEN ExchangeSort([stats EXCEPT ![i] = stats[j], ![j] = stats[i]], i, j + 1)
    ELSE ExchangeSort(stats, i, j + 1)

\* a getTopSources that cuts the list before it sorts
TruncateThenSort(stats, limit) ==
    ExchangeSort(IF Len(stats) > limit THEN SubSeq(stats, 1, limit) ELSE stats, 1, 2)

\* the list getTopSources makes of the statistics: sorted, then cut
SortThenTruncate(stats, limit) ==
    LET sorted == ExchangeSort(stats, 1, 2)
    IN  IF Len(sorted) > limit THEN SubSeq(sorted, 1, limit) ELSE sorted

\* getTopSources(sources, limit), the map iterated in the given order
getTopSources(sources, order, limit) ==
    IF DOMAIN sources = {} THEN <<>>
    ELSE SortThenTruncate([i \in 1..Len(order) |->
                              [source |-> order[i], count |-> sources[order[i]]]], limit)

\* the limit GetAnalytics passes to getTopSources
TopN == 10

\* a GetAnalytics that returns the error of GetSources
AnalyticsErrHard(statsErr, srcErr) == statsErr \/ srcErr

\* the error GetAnalytics returns: that of GetStats; the error of GetSources
\* is logged
AnalyticsErr(statsErr, srcErr) == statsErr

\* the map GetAnalytics hands to getTopSources: empty when GetSources failed
SourcesOrEmpty(res) == IF res[2] THEN <<>> ELSE res[1]

\* AnalyticsService.GetAnalytics(shortCode); logged: the failure of
\* GetSources was written to the log
GetAnalytics(m, u, keys, c, pvFail, scanFail, skipped, srcFail, unread, order) ==
    LET stats   == GetStats(m, u, c, pvFail, scanFail, skipped)
        res     == GetSources(keys, c, srcFail, unread)
        sources == SourcesOrEmpty(res)
    IN  IF AnalyticsErr(stats.err, res[2])
        THEN [op |-> "GetAnalytics", code |-> c, pv |-> 0, uv |-> 0, top |-> <<>>,
              err |-> TRUE, logged |-> res[2]]
        ELSE [op |-> "GetAnalytics", code |-> c, pv |-> stats.pv, uv |-> stats.uv,
              top |-> getTopSources(sources, order, TopN), err |-> FALSE,
              logged |-> res[2]]

(* ---------------------------------------------------------------------- *)
(* AnalyticsService.RecordAccess and Producer.SendAccessLog, each run by a  *)
(* goroutine.                                                               *)
(* ---------------------------------------------------------------------- *)

\* c.Request.Context() as the goroutine reads it: the context of the request
\* the handler's gin.Context holds at that moment
RequestContext(t) == IF t.owner = 0 THEN 0 ELSE rd[t.owner].id

\* the context is cancelled: its request has returned
Cancelled(ctx) == ctx # 0 /\ ctx \notin live

\* a backend call of a goroutine returns: at once on a cancelled context, and
\* otherwise only if the backend answers
BackendCall(backend, ctx) == Cancelled(ctx) \/ backend \notin blocked

\* the call is applied: the context is not cancelled and the backend does
\* not fail
Applied(ctx, fault) == ~fault /\ ~Cancelled(ctx)

\* a RecordAccess that returns at the first failed update
StopsAtFailure(ok) == IF ok THEN "uv" ELSE "done"

\* RecordAccess goes on to the UV update whatever IncrementPV returned
AfterIncrementPV(ok) == "uv"

\* the goroutine t ends as u
Ends(t, u) ==
    /\ tasks' = tasks \ {t}
    /\ finished' = u
    /\ recorded' = IF t.kind = "record" THEN [recorded EXCEPT ![t.code] = @ + 1]
                   ELSE recorded
    /\ visited' = IF t.kind = "record"
                  THEN visited \cup {[code |-> t.code, day |-> t.day0, ip |-> t.ip]}
                  ELSE visited

\* the goroutine t goes on as u
GoesOn(t, u) ==
    /\ tasks' = (tasks \ {t}) \cup {u}
    /\ UNCHANGED <<finished, recorded, visited>>

\* RecordAccess: redisRepo.IncrementPV(ctx, shortCode); the error is logged.
\* Then the visitorID is made from the day of the clock and the client IP.
TaskPV(t, fault) ==
    /\ t \in tasks /\ t.kind = "record" /\ t.pc = "pv"
    /\ BackendCall("cache", RequestContext(t))
    /\ LET ok == Applied(RequestContext(t), fault)
           u  == [t EXCEPT !.pc = AfterIncrementPV(ok), !.ctx = RequestContext(t),
                           !.vday = now,
                           !.tried = @ \cup {"pv"},
                           !.applied = IF ok THEN @ \cup {"pv"} ELSE @]
       IN  /\ pv' = IF ok THEN IncrementPV(pv, t.code) ELSE pv
           /\ IF u.pc = "done" THEN Ends(t, u) ELSE GoesOn(t, u)
    /\ UNCHANGED <<db, nextId, cache, bfBits, fbKeys, bfAvail, now, pc, req, loc, ret,
                   hist, added, calls, envs>>
    /\ UNCHANGED <<rd, live, uv, src, sent, blocked, mqProducer, pvExpired, out>>

\* RecordAccess: redisRepo.AddUV(ctx, shortCode, visitorID); the error is
\* logged.  With an empty source RecordAccess then returns nil.
TaskUV(t, fault) ==
    /\ t \in tasks /\ t.kind = "record" /\ t.pc = "uv"
    /\ BackendCall("cache", t.ctx)
    /\ LET ok == Applied(t.ctx, fault)
           u  == [t EXCEPT !.pc = IF extractSource(t.ref) = "" THEN "done" ELSE "source",
                           !.tried = @ \cup {"uv"},
                           !.applied = IF ok THEN @ \cup {"uv"} ELSE @]
       IN  /\ uv' = IF ok THEN AddUV(uv, t.code, now, VisitorID(t.vday, t.ip)) ELSE uv
           /\ IF u.pc = "done" THEN Ends(t, u) ELSE GoesOn(t, u)
    /\ UNCHANGED <<db, nextId, cache, bfBits, fbKeys, bfAvail, now, pc, req, loc, ret,
                   hist, added, calls, envs>>
    /\ UNCHANGED <<rd, live, pv, src, sent, blocked, mqProducer, pvExpired, out>>

\* RecordAccess: redisRepo.AddSource(ctx, shortCode, source), reached with a
\* source that is not empty; then RecordAccess returns nil
TaskSource(t, fault) ==
    /\ t \in tasks /\ t.kind = "record" /\ t.pc = "source"
    /\ BackendCall("cache", t.ctx)
    /\ LET ok == Applied(t.ctx, fault)
       IN  /\ src' = IF ok THEN AddSource(src, t.code, extractSource(t.ref), now) ELSE src
           /\ Ends(t, [t EXCEPT !.pc = "done",
                                !.tried = @ \cup {"source"},
                                !.applied = IF ok THEN @ \cup {"source"} ELSE @])
    /\ UNCHANGED <<db, nextId, cache, bfBits, fbKeys, bfAvail, now, pc, req, loc, ret,
                   hist, added, calls, envs>>
    /\ UNCHANGED <<rd, live, pv, uv, sent, blocked, mqProducer, pvExpired, out>>

\* a SendAccessLog without the test of its receiver
SendsWithoutNilCheck(kind) == TRUE

\* SendAccessLog reaches client.SendSync only with a receiver that is not nil
SendsToClient(kind) == kind = "live"

\* mqProducer.SendAccessLog(ctx, msg) in its goroutine; the error is logged
TaskSend(t, fault) ==
    /\ t \in tasks /\ t.kind = "log" /\ t.pc = "send"
    /\ IF SendsToClient(mqProducer)
       THEN /\ BackendCall("mq", RequestContext(t))
            /\ LET ok == Applied(RequestContext(t), fault)
               IN  /\ sent' = IF ok THEN sent \cup {t.id} ELSE sent
                   /\ Ends(t, [t EXCEPT !.pc = "done", !.ctx = RequestContext(t),
                                        !.tried = @ \cup {"send"},
                                        !.applied = IF ok THEN @ \cup {"send"} ELSE @])
       ELSE /\ ~fault
            /\ sent' = sent
            /\ Ends(t, [t EXCEPT !.pc = "done"])
    /\ UNCHANGED <<db, nextId, cache, bfBits, fbKeys, bfAvail, now, pc, req, loc, ret,
                   hist, added, calls, envs>>
    /\ UNCHANGED <<rd, live, pv, uv, src, blocked, mqProducer, pvExpired, out>>

\* a client calls RecordAccess itself, with a context that is never cancelled
RecordAccessCall(c, ip, ref) ==
    /\ calls < MaxCalls
    /\ calls' = calls + 1
    /\ tasks' = tasks \cup {Task(calls + 1, "record", 0, c, ip, ref, "pv", now)}
    /\ UNCHANGED <<db, nextId, cache, bfBits, fbKeys, bfAvail, now, pc, req, loc, ret,
                   hist, added, envs>>
    /\ UNCHANGED <<rd, live, pv, uv, src, sent, blocked, mqProducer, pvExpired,
                   finished, recorded, visited, out>>

(* ---------------------------------------------------------------------- *)
(* RedirectHandler.Redirect                                                *)
(* ---------------------------------------------------------------------- *)

\* ShortLinkService.Get(shortCode) as one step: the status, the URL and the
\* cache it leaves.  fail names the backend call that fails: none, the cache
\* read or the store query.
Resolve(ch, d, t, c, fail) ==
    LET hit  == IF fail = "cache" THEN {} ELSE CacheGet(ch, StrOfCode(c))
        rows == IF fail = "db" THEN {} ELSE GetShortLinkByCode(d, StrOfCode(c))
    IN  IF hit # {}
        THEN [status |-> "ok", url |-> CHOOSE v \in hit : TRUE, cache |-> ch]
        ELSE IF rows = {}
        THEN [status |-> "notfound", url |-> EmptyStr, cache |-> ch]
        ELSE IF ~IsActive(First(rows), t)
        THEN [status |-> "expired", url |-> EmptyStr, cache |-> ch]
        ELSE [status |-> "ok", url |-> StrOfURL(First(rows).url, 0),
              cache |-> IF fail = "cache" THEN ch
                        ELSE CacheSet(ch, StrOfCode(c), StrOfURL(First(rows).url, 0))]

\* A URL as text: the stored URL and the pairs of its query string in their
\* order; ok tells that a pair is well formed.
Text(u, pairs) == [k |-> "url", u |-> u, query |-> pairs]

\* the query parameters of redirect requests and the params of a template
ParamKeys == {"a", "b"}
ParamVals == {"1", "2"}
QueryParams == UNION {[K -> ParamVals] : K \in SUBSET ParamKeys}
TemplateParams(t) ==
    IF t = 0 THEN <<>>
    ELSE [k \in {"utm_source"} |-> IF t = 1 THEN "newsletter" ELSE "spring2024"]

\* The stored URLs.  URL 1 is "https://x.com?b=%zz&a=0", whose pair b has an
\* invalid percent escape; URL 2 is text url.Parse rejects; the others have
\* no query string.  Generate accepts each of them: it requires a url that
\* is not empty.
Parses(u) == u # 2
StoredQuery(u) ==
    IF u = 1 THEN <<[key |-> "b", val |-> "%zz", ok |-> FALSE],
                    [key |-> "a", val |-> "0", ok |-> TRUE]>>
    ELSE <<>>
OriginalURL(u) == Text(u, StoredQuery(u))

\* u.Query(): the well-formed pairs by key; a malformed pair is dropped
Query(u) ==
    LET wf == {i \in 1..Len(StoredQuery(u)) : StoredQuery(u)[i].ok}
    IN  [k \in {StoredQuery(u)[i].key : i \in wf} |->
            (CHOOSE p \in {StoredQuery(u)[i] : i \in wf} : p.key = k).val]

\* query.Set(key, value) for every pair of params
QuerySet(query, params) ==
    [k \in DOMAIN query \cup DOMAIN params |->
        IF k \in DOMAIN params THEN params[k] ELSE query[k]]

\* query.Encode(): the pairs sorted by key
KeyOrder == <<"a", "b", "utm_source">>
QueryEncode(query) ==
    LET ks == SelectSeq(KeyOrder, LAMBDA k : k \in DOMAIN query)
    IN  [i \in 1..Len(ks) |-> [key |-> ks[i], val |-> query[ks[i]], ok |-> TRUE]]

\* the template stored with the link of a code
StoredTemplate(d, c) ==
    LET rows == GetShortLinkByCode(d, StrOfCode(c))
    IN  IF rows = {} THEN 0 ELSE First(rows).tmpl

\* an ExpandURL that sets the params of the link's template, then those of
\* the request
MergedWithTemplate(tmpl, queryParams) == QuerySet(TemplateParams(tmpl), queryParams)

\* the params ExpandURL sets on the query: those of the request
MergedParams(tmpl, queryParams) == queryParams

\* ShortLinkService.ExpandURL(shortCode, queryParams): the status, the URL
\* and the cache it leaves.  The error of Get is returned; a URL that does
\* not parse is returned as stored.
ExpandURL(ch, d, t, c, queryParams, fail) ==
    LET res == Resolve(ch, d, t, c, fail)
        u   == res.url.u
    IN  IF res.status # "ok"
        THEN [status |-> res.status, url |-> Text(0, <<>>), cache |-> res.cache]
        ELSE IF ~Parses(u)
        THEN [status |-> "ok", url |-> OriginalURL(u), cache |-> res.cache]
        ELSE [status |-> "ok", cache |-> res.cache,
              url |-> Text(u, QueryEncode(QuerySet(Query(u),
                              MergedParams(StoredTemplate(d, c), queryParams))))]

Failures == {"none", "cache", "db"}

\* no redirect is being served
RdQuiet == \A p \in Procs : rd[p].pc = "idle"

\* GET /:shortCode arrives: the handler's gin.Context takes the request
RedirectStart(p, c, ip, ref) ==
    /\ pc[p] = "idle" /\ rd[p].pc = "idle"
    /\ calls < MaxCalls
    /\ calls' = calls + 1
    /\ rd' = [rd EXCEPT ![p] = [NoRd EXCEPT !.pc = "get", !.id = calls + 1, !.code = c,
                                           !.ip = ip, !.ref = ref]]
    /\ live' = live \cup {calls + 1}
    /\ UNCHANGED <<db, nextId, cache, bfBits, fbKeys, bfAvail, now, pc, req, loc, ret,
                   hist, added, envs>>
    /\ UNCHANGED <<tasks, pv, uv, src, sent, blocked, mqProducer, pvExpired,
                   finished, recorded, visited, out>>

\* a handler that goes on to the recording when Get returned an error
GetFailedIgnored(p) ==
    /\ rd' = [rd EXCEPT ![p].pc = "record"]
    /\ live' = live

\* what Redirect does when Get returned an error: 404.html, then return
GetFailed(p) ==
    /\ rd' = [rd EXCEPT ![p].pc = "idle", ![p].resp = "404"]
    /\ live' = live \ {rd[p].id}

\* shortLinkService.Get(ctx, shortCode): an error is answered with 404
RedirectGet(p, fail) ==
    /\ rd[p].pc = "get"
    /\ "cache" \notin blocked
    /\ Outcome(fail = "none")
    /\ LET res == Resolve(cache, db, now, rd[p].code, fail)
       IN  /\ cache' = res.cache
           /\ IF res.status = "ok"
              THEN /\ rd' = [rd EXCEPT ![p].pc = "expand", ![p].url = res.url]
                   /\ live' = live
              ELSE GetFailed(p)
    /\ UNCHANGED <<db, nextId, bfBits, fbKeys, bfAvail, now, pc, req, loc, ret,
                   hist, added, calls>>
    /\ UNCHANGED <<tasks, pv, uv, src, sent, blocked, mqProducer, pvExpired,
                   finished, recorded, visited, out>>

\* shortLinkService.ExpandURL(ctx, shortCode, queryParams), which calls Get
\* again; on an error the target is the URL of the first Get
RedirectExpand(p, fail) ==
    /\ rd[p].pc = "expand"
    /\ "cache" \notin blocked
    /\ Outcome(fail = "none")
    /\ LET res == Resolve(cache, db, now, rd[p].code, fail)
       IN  /\ cache' = res.cache
           /\ rd' = [rd EXCEPT ![p].pc = "record",
                               ![p].url = IF res.status = "ok" THEN res.url ELSE @]
    /\ UNCHANGED <<db, nextId, bfBits, fbKeys, bfAvail, now, pc, req, loc, ret,
                   hist, added, calls>>
    /\ UNCHANGED <<tasks, live, pv, uv, src, sent, blocked, mqProducer, pvExpired,
                   finished, recorded, visited, out>>

\* go func() { h.analyticsService.RecordAccess(c.Request.Context(), ...) }()
RedirectGoRecord(p) ==
    /\ rd[p].pc = "record"
    /\ tasks' = tasks \cup {Task(rd[p].id, "record", p, rd[p].code, rd[p].ip, rd[p].ref, "pv", now)}
    /\ rd' = [rd EXCEPT ![p].pc = "log"]
    /\ UNCHANGED <<db, nextId, cache, bfBits, fbKeys, bfAvail, now, pc, req, loc, ret,
                   hist, added, calls, envs>>
    /\ UNCHANGED <<live, pv, uv, src, sent, blocked, mqProducer, pvExpired,
                   finished, recorded, visited, out>>

\* if h.mqProducer != nil { go func() { h.mqProducer.SendAccessLog(...) }() }:
\* an interface that holds a nil pointer is not nil
RedirectGoLog(p) ==
    /\ rd[p].pc = "log"
    /\ tasks' = IF mqProducer # "nil"
                THEN tasks \cup {Task(rd[p].id, "log", p, rd[p].code, rd[p].ip, rd[p].ref, "send", now)}
                ELSE tasks
    /\ rd' = [rd EXCEPT ![p].pc = "respond"]
    /\ UNCHANGED <<db, nextId, cache, bfBits, fbKeys, bfAvail, now, pc, req, loc, ret,
                   hist, added, calls, envs>>
    /\ UNCHANGED <<live, pv, uv, src, sent, blocked, mqProducer, pvExpired,
                   finished, recorded, visited, out>>

\* the go statements of Redirect: one for RecordAccess, one for SendAccessLog
GoroutinesPerRequest == 2

\* goroutines started for the request the handler is serving
OwnTasks(p) == {t \in tasks : t.owner = p /\ t.id = rd[p].id}

\* a handler that calls RecordAccess and SendAccessLog itself
RespondsAfterTasks(p) == OwnTasks(p) = {}

\* the handler does not wait for the goroutines it started
RespondsWhen(p) == TRUE

\* c.Redirect(http.StatusFound, targetURL); the handler returns and the
\* context of its request is cancelled
RedirectRespond(p) ==
    /\ rd[p].pc = "respond"
    /\ RespondsWhen(p)
    /\ rd' = [rd EXCEPT ![p].pc = "idle", ![p].resp = "302"]
    /\ live' = live \ {rd[p].id}
    /\ UNCHANGED <<db, nextId, cache, bfBits, fbKeys, bfAvail, now, pc, req, loc, ret,
                   hist, added, calls, envs>>
    /\ UNCHANGED <<tasks, pv, uv, src, sent, blocked, mqProducer, pvExpired,
                   finished, recorded, visited, out>>

\* a backend stops answering for good
Block(b) ==
    /\ envs < MaxEnv
    /\ b \notin blocked
    /\ blocked' = blocked \cup {b}
    /\ envs' = envs + 1
    /\ UNCHANGED <<db, nextId, cache, bfBits, fbKeys, bfAvail, now, pc, req, loc, ret,
                   hist, added, calls>>
    /\ UNCHANGED <<rd, tasks, live, pv, uv, src, sent, mqProducer, pvExpired,
                   finished, recorded, visited, out>>

\* the key sl:pv:<code> reaches the TTL set at its first increment
ExpirePV(c) ==
    /\ envs < MaxEnv
    /\ pv[c] > 0
    /\ pv' = [pv EXCEPT ![c] = 0]
    /\ pvExpired' = pvExpired \cup {c}
    /\ envs' = envs + 1
    /\ UNCHANGED <<db, nextId, cache, bfBits, fbKeys, bfAvail, now, pc, req, loc, ret,
                   hist, added, calls>>
    /\ UNCHANGED <<rd, tasks, live, uv, src, sent, blocked, mqProducer, finished,
                   recorded, visited, out>>

\* the set sl:uv:<code>:<day> reaches the TTL its last AddUV set
ExpireUV(c, day) ==
    /\ envs < MaxEnv
    /\ \E e \in uv : e.code = c /\ e.day = day
    /\ uv' = {e \in uv : ~(e.code = c /\ e.day = day)}
    /\ envs' = envs + 1
    /\ UNCHANGED <<db, nextId, cache, bfBits, fbKeys, bfAvail, now, pc, req, loc, ret,
                   hist, added, calls>>
    /\ UNCHANGED <<rd, tasks, live, pv, src, sent, blocked, mqProducer, pvExpired,
                   finished, recorded, visited, out>>

\* midnight: the next calendar day begins
NextDay ==
    /\ now < MaxNow
    /\ now' = now + 1
    /\ UNCHANGED <<db, nextId, cache, bfBits, fbKeys, bfAvail, pc, req, loc, ret, hist,
                   added, calls, envs>>
    /\ UNCHANGED avars

\* a client reads the statistics of a code; the reads of the counters may fail
GetStatsCall(c, pvFail, scanFail, skipped) ==
    /\ out' = GetStats(pv, uv, c, pvFail, scanFail, skipped)
    /\ out' # out
    /\ UNCHANGED <<db, nextId, cache, bfBits, fbKeys, bfAvail, now, pc, req, loc, ret,
                   hist, added, calls, envs>>
    /\ UNCHANGED <<rd, tasks, live, pv, uv, src, sent, blocked, mqProducer, pvExpired,
                   finished, recorded, visited>>

\* a client reads the analytics of a code; the reads of the counters may
\* fail, and the map of the sources is iterated in any order
GetAnalyticsCall(c, pvFail, scanFail, skipped, srcFail, unread) ==
    /\ \E order \in Orders(DOMAIN SourcesOrEmpty(GetSources(SourceKeys(src), c, srcFail, unread))) :
          out' = GetAnalytics(pv, uv, SourceKeys(src), c, pvFail, scanFail, skipped,
                              srcFail, unread, order)
    /\ out' # out
    /\ UNCHANGED <<db, nextId, cache, bfBits, fbKeys, bfAvail, now, pc, req, loc, ret,
                   hist, added, calls, envs>>
    /\ UNCHANGED <<rd, tasks, live, pv, uv, src, sent, blocked, mqProducer, pvExpired,
                   finished, recorded, visited>>

\* getTopSources(sources, limit) on the sources of a code
TopSourcesCall(c, limit) ==
    /\ \E order \in Orders(DOMAIN GetSources(SourceKeys(src), c, FALSE, {})[1]) :
          out' = [op |-> "getTopSources", code |-> c, limit |-> limit,
                  top |-> getTopSources(GetSources(SourceKeys(src), c, FALSE, {})[1],
                                        order, limit)]
    /\ out' # out
    /\ UNCHANGED <<db, nextId, cache, bfBits, fbKeys, bfAvail, now, pc, req, loc, ret,
                   hist, added, calls, envs>>
    /\ UNCHANGED <<rd, tasks, live, pv, uv, src, sent, blocked, mqProducer, pvExpired,
                   finished, recorded, visited>>

\* the parts of the initial state: idle handlers, no links stored, no
\* request in progress, counters at zero
InitHandlers ==
    /\ now = 0
    /\ pc = [p \in Procs |-> "idle"]
    /\ req = [p \in Procs |-> NoReq]
    /\ loc = [p \in Procs |-> NoLoc]
    /\ ret = [p \in Procs |-> NoRet]
    /\ hist = [p \in Procs |-> NoHist]
    /\ calls = 0
    /\ envs = 0

InitNoLinks ==
    /\ db = {}
    /\ nextId = 1
    /\ cache = {}
    /\ bfBits = {}
    /\ fbKeys = {}
    /\ added = {}

InitNoTasks ==
    /\ rd = [p \in Procs |-> NoRd]
    /\ tasks = {}
    /\ live = {}
    /\ sent = {}
    /\ blocked = {}
    /\ pvExpired = {}
    /\ finished = NoTask
    /\ recorded = [c \in AnCodes |-> 0]
    /\ visited = {}
    /\ out = NoOut
    /\ mqProducer = "live"

InitNoCounts ==
    /\ pv = [c \in AnCodes |-> 0]
    /\ uv = {}
    /\ src = [k \in AnCodes \X Sources \X Days |-> 0]

\* a client expands a code with the query parameters of its request
ExpandCall(c, queryParams, fail) ==
    /\ Outcome(fail = "none")
    /\ LET res == ExpandURL(cache, db, now, c, queryParams, fail)
       IN  /\ cache' = res.cache
           /\ out' = [op |-> "ExpandURL", code |-> c, params |-> queryParams,
                      status |-> res.status, url |-> res.url]
    /\ UNCHANGED <<db, nextId, bfBits, fbKeys, bfAvail, now, pc, req, loc, ret,
                   hist, added, calls>>
    /\ UNCHANGED <<rd, tasks, live, pv, uv, src, sent, blocked, mqProducer, pvExpired,
                   finished, recorded, visited>>

\* A client of the Bloom service calls Add, Exists and Reset.  bfOk: the BF.*
\* command of the call is answered when the module is loaded; up: the store
\* is reached by the call.
AddCall(c, bfOk, up) ==
    /\ LET res == BloomAdd(bfBits, fbKeys, bfAvail /\ bfOk, up, c)
       IN  /\ bfBits' = res[1]
           /\ fbKeys' = res[2]
           /\ added' = IF res[3] THEN added ELSE added \cup {c}
           /\ out' = [op |-> "Add", code |-> c, result |-> FALSE, err |-> res[3]]
    /\ UNCHANGED <<db, nextId, cache, bfAvail, now, pc, req, loc, ret, hist, calls, envs>>
    /\ UNCHANGED <<rd, tasks, live, pv, uv, src, sent, blocked, mqProducer, pvExpired,
                   finished, recorded, visited>>

ExistsCall(c, bfOk, up) ==
    /\ LET res == BloomExists(bfBits, fbKeys, bfAvail /\ bfOk, up, c)
       IN  out' = [op |-> "Exists", code |-> c, result |-> res[1], err |-> res[2]]
    /\ UNCHANGED <<db, nextId, cache, bfBits, fbKeys, bfAvail, now, pc, req, loc, ret,
                   hist, added, calls, envs>>
    /\ UNCHANGED <<rd, tasks, live, pv, uv, src, sent, blocked, mqProducer, pvExpired,
                   finished, recorded, visited>>

\* Reset(): the DEL fails when the store is not reached
ResetCall(up) ==
    /\ bfBits' = (IF up THEN BloomReset(bfBits, fbKeys)[1] ELSE bfBits)
    /\ fbKeys' = (IF up THEN BloomReset(bfBits, fbKeys)[2] ELSE fbKeys)
    /\ added' = (IF up THEN {} ELSE added)
    /\ out' = [op |-> "Reset", code |-> <<>>, result |-> FALSE, err |-> ~up]
    /\ UNCHANGED <<db, nextId, cache, bfAvail, now, pc, req, loc, ret, hist, calls, envs>>
    /\ UNCHANGED <<rd, tasks, live, pv, uv, src, sent, blocked, mqProducer, pvExpired,
                   finished, recorded, visited>>

\* a client encodes a number and decodes the result
EncodeCall(n, length) ==
    /\ out = [op |-> "input", n |-> n, length |-> length]
    /\ out' = [op |-> "Encode", n |-> n, length |-> length,
               code |-> EncodeText(n, length),
               decoded |-> DecodeText(EncodeText(n, length))]
    /\ UNCHANGED <<db, nextId, cache, bfBits, fbKeys, bfAvail, now, pc, req, loc, ret,
                   hist, added, calls, envs>>
    /\ UNCHANGED <<rd, tasks, live, pv, uv, src, sent, blocked, mqProducer, pvExpired,
                   finished, recorded, visited>>

(* ---------------------------------------------------------------------- *)
(* Specifications.                                                         *)
(* ---------------------------------------------------------------------- *)

\* no call is in flight
Quiet == \A p \in Procs : pc[p] = "idle"

\* the handlers are interchangeable: calls made one after the other go to
\* them in turn
Turn(p) == Quiet /\ p = (calls % NumProcs) + 1

\* no call is in flight and another call can follow
Between == Quiet /\ calls < MaxCalls

\* One handler serves the calls one after the other; every backend call may
\* fail, and between two calls the clock advances, rows are disabled or
\* cleaned up, cache keys expire, and the filter changes availability or is
\* reset.
Next ==
    \/ \E p \in Procs, r \in Requests : Quiet /\ p = 1 /\ GenerateStart(p, r.url, r.tmpl, r.exp)
    \/ \E p \in Procs, ok \in BOOLEAN : GenGetCache(p, ok)
    \/ \E p \in Procs, ok \in BOOLEAN : GenGetByCode(p, ok)
    \/ \E p \in Procs, ok \in BOOLEAN : GenGetByURL(p, ok)
    \/ \E p \in Procs, ok \in BOOLEAN : GenSaveDedup(p, ok)
    \/ \E p \in Procs, up \in BOOLEAN : GenBloomExists(p, up)
    \/ \E p \in Procs, ok \in BOOLEAN : GenCheckExists(p, ok)
    \/ \E p \in Procs, ok \in BOOLEAN : GenSaveMySQL(p, ok)
    \/ \E p \in Procs, ok \in BOOLEAN : GenSaveCache1(p, ok)
    \/ \E p \in Procs, ok \in BOOLEAN : GenSaveCache2(p, ok)
    \/ \E p \in Procs, up \in BOOLEAN : GenBloomAdd(p, up)
    \/ \E p \in Procs, c \in CodeInputs : Quiet /\ p = 1 /\ GetStart(p, c)
    \/ \E p \in Procs, ok \in BOOLEAN : GetGetCache(p, ok)
    \/ \E p \in Procs, ok \in BOOLEAN : GetGetByCode(p, ok)
    \/ \E p \in Procs, ok \in BOOLEAN : GetSaveCache(p, ok)
    \/ Between /\ Tick
    \/ \E r \in db : Between /\ Disable(r)
    \/ Between /\ Cleanup
    \/ \E e \in cache : Between /\ Evict(e)
    \/ Between /\ SetBloomAvail
    \/ Between /\ Reset

Spec == Init /\ [][Next]_vars

\* Generate calls made one after the other, the handlers taking them in turn,
\* over a store whose look-up by URL is healthy; the clock advances and cache
\* keys expire between two calls.
NextRepeat ==
    \/ \E p \in Procs, r \in Requests : Turn(p) /\ GenerateStart(p, r.url, r.tmpl, r.exp)
    \/ \E p \in Procs, ok \in BOOLEAN : GenGetCache(p, ok)
    \/ \E p \in Procs, ok \in BOOLEAN : GenGetByCode(p, ok)
    \/ \E p \in Procs : GenGetByURL(p, TRUE)
    \/ \E p \in Procs, ok \in BOOLEAN : GenSaveDedup(p, ok)
    \/ \E p \in Procs, up \in BOOLEAN : GenBloomExists(p, up)
    \/ \E p \in Procs, ok \in BOOLEAN : GenCheckExists(p, ok)
    \/ \E p \in Procs, ok \in BOOLEAN : GenSaveMySQL(p, ok)
    \/ \E p \in Procs, ok \in BOOLEAN : GenSaveCache1(p, ok)
    \/ \E p \in Procs, ok \in BOOLEAN : GenSaveCache2(p, ok)
    \/ \E p \in Procs, up \in BOOLEAN : GenBloomAdd(p, up)
    \/ Tick
    \/ \E e \in cache : Quiet /\ Evict(e)

SpecRepeat == Init /\ [][NextRepeat]_vars

\* the same calls, with the sweep of expired rows run between two calls
NextSweep ==
    \/ NextRepeat
    \/ Quiet /\ Cleanup

SpecSweep == Init /\ [][NextSweep]_vars

\* a Generate call is in flight
InGenerate == \E p \in Procs : req[p].op = "Generate" /\ pc[p] # "idle"

\* Generate and Get calls made one after the other, the handlers taking them
\* in turn, with nothing between two calls but the expiry of cache keys.  The
\* clock advances only while a Generate runs: the expire_at of its request
\* is then passed when it returns, as it is for a request that carries an
\* instant already passed.
NextRoundTrip ==
    \/ \E p \in Procs, r \in Requests : Turn(p) /\ GenerateStart(p, r.url, r.tmpl, r.exp)
    \/ \E p \in Procs, ok \in BOOLEAN : GenGetCache(p, ok)
    \/ \E p \in Procs, ok \in BOOLEAN : GenGetByCode(p, ok)
    \/ \E p \in Procs, ok \in BOOLEAN : GenGetByURL(p, ok)
    \/ \E p \in Procs, ok \in BOOLEAN : GenSaveDedup(p, ok)
    \/ \E p \in Procs, up \in BOOLEAN : GenBloomExists(p, up)
    \/ \E p \in Procs, ok \in BOOLEAN : GenCheckExists(p, ok)
    \/ \E p \in Procs, ok \in BOOLEAN : GenSaveMySQL(p, ok)
    \/ \E p \in Procs, ok \in BOOLEAN : GenSaveCache1(p, ok)
    \/ \E p \in Procs, ok \in BOOLEAN : GenSaveCache2(p, ok)
    \/ \E p \in Procs, up \in BOOLEAN : GenBloomAdd(p, up)
    \/ \E p \in Procs, c \in CodeInputs : Turn(p) /\ GetStart(p, c)
    \/ \E p \in Procs, ok \in BOOLEAN : GetGetCache(p, ok)
    \/ \E p \in Procs, ok \in BOOLEAN : GetGetByCode(p, ok)
    \/ \E p \in Procs, ok \in BOOLEAN : GetSaveCache(p, ok)
    \/ InGenerate /\ Tick
    \/ \E e \in cache : Quiet /\ Evict(e)

SpecRoundTrip == Init /\ [][NextRoundTrip]_vars

\* Generate calls served concurrently by the handlers over healthy backends:
\* every interleaving of their backend calls.
\* requests that pass Generate's validation and carry no expiry and no
\* template: neither the look-up by URL nor the candidate codes depend on the
\* template
ValidRequests == {r \in Requests : r.url # 0 /\ r.exp = "" /\ r.tmpl = 0}

NextRace ==
    \/ \E p \in Procs, r \in ValidRequests : GenerateStart(p, r.url, r.tmpl, r.exp)
    \/ \E p \in Procs : GenGetCache(p, TRUE)
    \/ \E p \in Procs : GenGetByCode(p, TRUE)
    \/ \E p \in Procs : GenGetByURL(p, TRUE)
    \/ \E p \in Procs : GenSaveDedup(p, TRUE)
    \/ \E p \in Procs : GenBloomExists(p, TRUE)
    \/ \E p \in Procs : GenCheckExists(p, TRUE)
    \/ \E p \in Procs : GenSaveMySQL(p, TRUE)
    \/ \E p \in Procs : GenSaveCache1(p, TRUE)
    \/ \E p \in Procs : GenSaveCache2(p, TRUE)
    \/ \E p \in Procs : GenBloomAdd(p, TRUE)

SpecRace == Init /\ [][NextRace]_vars

\* The service with one link stored by an earlier Generate, its code key
\* cached or not, and a handler built with any of the three producers.
InitRedirect ==
    /\ db = {Row(1, Encode(0, MinLength), 1, 0, {})}
    /\ nextId = 2
    /\ cache = {}
    /\ bfBits = {BloomBit(Encode(0, MinLength))}
    /\ fbKeys = {}
    /\ bfAvail = TRUE
    /\ now = 0
    /\ pc = [p \in Procs |-> "idle"]
    /\ req = [p \in Procs |-> NoReq]
    /\ loc = [p \in Procs |-> NoLoc]
    /\ ret = [p \in Procs |-> NoRet]
    /\ hist = [p \in Procs |-> NoHist]
    /\ added = {Encode(0, MinLength)}
    /\ calls = 0
    /\ envs = 0
    /\ InitAnalytics
    /\ mqProducer \in MqKinds

\* the goroutines still running are those of the last request
Recent == \A t \in tasks : t.id = calls

\* the steps of the handlers in Redirect
RedirectSteps ==
    \/ \E p \in Procs, c \in AnCodes :
          RdQuiet /\ p = 1 /\ Recent /\ RedirectStart(p, c, 1, "")
    \/ \E p \in Procs, fail \in Failures : RedirectGet(p, fail)
    \/ \E p \in Procs, fail \in Failures : RedirectExpand(p, fail)
    \/ \E p \in Procs : RedirectGoRecord(p)
    \/ \E p \in Procs : RedirectGoLog(p)
    \/ \E p \in Procs : RedirectRespond(p)

\* a handler is about to start the goroutines of its request
Spawning == \E p \in Procs : rd[p].pc = "record"

\* One handler serves redirects of one client one after the other, the
\* goroutines of a request running beside it and beside the next request; a backend call of the handler
\* may fail, and a backend may stop answering once the handler has the
\* target of a request.
NextRedirect ==
    \/ RedirectSteps
    \/ \E t \in tasks : TaskPV(t, FALSE)
    \/ \E t \in tasks : TaskUV(t, FALSE)
    \/ \E t \in tasks : TaskSource(t, FALSE)
    \/ \E t \in tasks : TaskSend(t, FALSE)
    \/ \E b \in {"cache", "mq"} : Spawning /\ Block(b)

SpecRedirect == InitRedirect /\ [][NextRedirect]_vars

\* the steps of a handler that has the target of its request
AfterTarget ==
    \/ \E p \in Procs : RedirectGoRecord(p)
    \/ \E p \in Procs : RedirectGoLog(p)
    \/ \E p \in Procs : RedirectRespond(p)

\* the redirect handler with a producer that sends: both goroutines start
InitRedirectLive == InitRedirect /\ mqProducer = "live"

\* The same with that producer, where a handler that has the target of its
\* request and can take a step takes it in the end.  Nothing is assumed of
\* the goroutines, of the backends and of the arrival of requests.
SpecRedirectFair == InitRedirectLive /\ [][NextRedirect]_vars /\ WF_vars(AfterTarget)

\* the visits recorded: every referer for the first code and the first
\* client, no referer for the others
Visits ==
    {r \in [code : AnCodes, ip : Clients, ref : Referers] :
        (r.code = Encode(0, MinLength) \/ r.ref = "") /\ (r.ip = 1 \/ r.ref = "")}

\* Clients call RecordAccess concurrently over a healthy cache; the PV key
\* may reach its TTL.
NextRecord ==
    \/ \E r \in Visits : RecordAccessCall(r.code, r.ip, r.ref)
    \/ \E t \in tasks : TaskPV(t, FALSE)
    \/ \E t \in tasks : TaskUV(t, FALSE)
    \/ \E t \in tasks : TaskSource(t, FALSE)
    \/ \E c \in AnCodes : ExpirePV(c)

SpecRecord == Init /\ [][NextRecord]_vars

\* Clients call RecordAccess one after the other; each of its updates may
\* fail.
NextRecordFaults ==
    \/ \E r \in Visits : tasks = {} /\ RecordAccessCall(r.code, r.ip, r.ref)
    \/ \E t \in tasks, fault \in BOOLEAN : TaskPV(t, fault)
    \/ \E t \in tasks, fault \in BOOLEAN : TaskUV(t, fault)
    \/ \E t \in tasks, fault \in BOOLEAN : TaskSource(t, fault)

SpecRecordFaults == Init /\ [][NextRecordFaults]_vars

\* Clients visit the first code over a healthy cache, on one day or across
\* midnight, and read its statistics when no visit is being recorded; a
\* per-day set may reach its TTL.
NextVisits ==
    \/ \E ip \in Clients : RecordAccessCall(Encode(0, MinLength), ip, "nohost")
    \/ \E t \in tasks : TaskPV(t, FALSE)
    \/ \E t \in tasks : TaskUV(t, FALSE)
    \/ NextDay
    \/ \E day \in Days : ExpireUV(Encode(0, MinLength), day)
    \/ tasks = {} /\ GetStatsCall(Encode(0, MinLength), FALSE, FALSE, {})

SpecVisits == Init /\ [][NextVisits]_vars

\* Reads of the statistics of one code over counters left by earlier visits:
\* a PV count, one visitor on some of the days, a count of direct visits.
\* Every combination of failed reads.
UVMembers == {[code |-> Encode(0, MinLength), day |-> d, visitor |-> VisitorID(d, 1)] : d \in Days}

InitReads ==
    /\ InitHandlers /\ InitNoLinks /\ InitNoTasks
    /\ bfAvail = TRUE
    /\ \E n \in 0..MaxCalls : pv = [c \in AnCodes |-> IF c = Encode(0, MinLength) THEN n ELSE 0]
    /\ uv \in SUBSET UVMembers
    /\ \E n \in 0..MaxHits :
          src = [k \in AnCodes \X Sources \X Days |->
                    IF k = <<Encode(0, MinLength), "direct", 0>> THEN n ELSE 0]

\* the per-day sets whose SCARD fails in a read: none, or that of the first day
SkippedSets == {{}, {0}}

NextReads ==
    \/ \E pvFail, scanFail \in BOOLEAN, skipped \in SkippedSets :
          GetStatsCall(Encode(0, MinLength), pvFail, scanFail, skipped)
    \/ \E pvFail, scanFail, srcFail \in BOOLEAN, skipped \in SkippedSets,
          unread \in {{}, {e.key : e \in SourceKeys(src)}} :
          GetAnalyticsCall(Encode(0, MinLength), pvFail, scanFail, skipped, srcFail, unread)

SpecReads == InitReads /\ [][NextReads]_vars

\* getTopSources and GetAnalytics over source counters left by earlier
\* visits: every source with any count on each day, beside a counter of
\* another code.  The map of the sources is iterated in every order and the
\* list is cut at every length.
InitTop ==
    /\ InitHandlers /\ InitNoLinks /\ InitNoTasks
    /\ bfAvail = TRUE
    /\ pv = [c \in AnCodes |-> 0]
    /\ uv = {}
    /\ \E hits \in [Labels \X Days -> 0..MaxHits] :
          /\ SumVals({[key |-> k, val |-> hits[k]] : k \in DOMAIN hits}) <= MaxVisits
          /\ src = [k \in AnCodes \X Labels \X Days |->
                       IF k[1] = Encode(0, MinLength) THEN hits[<<k[2], k[3]>>]
                       ELSE IF k[2] = "direct" /\ k[3] = 0 THEN MaxHits ELSE 0]

NextTop ==
    \/ \E limit \in 1..Cardinality(Labels) : TopSourcesCall(Encode(0, MinLength), limit)
    \/ GetAnalyticsCall(Encode(0, MinLength), FALSE, FALSE, {}, FALSE, {})

SpecTop == InitTop /\ [][NextTop]_vars

\* ExpandURL calls over one link stored by an earlier Generate, with any URL,
\* template and expiry, its code key cached or not: every code, every set of
\* query parameters, and a failure of either backend; the clock advances and
\* the cache key expires between two calls.
InitExpand ==
    /\ InitHandlers /\ InitNoTasks /\ InitNoCounts
    /\ \E u \in URLs, t \in Templates, e \in {{}, {0}} :
          /\ db = {Row(1, Encode(hashString(u), MinLength), u, t, e)}
          /\ cache \in {{}, CacheSet({}, StrOfCode(Encode(hashString(u), MinLength)),
                                     StrOfURL(u, 0))}
          /\ bfBits = {BloomBit(Encode(hashString(u), MinLength))}
          /\ added = {Encode(hashString(u), MinLength)}
    /\ nextId = 2
    /\ fbKeys = {}
    /\ bfAvail = TRUE

NextExpand ==
    \/ \E c \in AnCodes, q \in QueryParams, fail \in Failures : ExpandCall(c, q, fail)
    \/ Tick
    \/ \E e \in cache : Evict(e)

SpecExpand == InitExpand /\ [][NextExpand]_vars

\* Add, Exists and Reset called in any order on the Bloom service, with the
\* RedisBloom module loaded or not and any call failing to reach the store.
InitBloom ==
    /\ InitHandlers /\ InitNoLinks /\ InitNoTasks /\ InitNoCounts
    /\ bfAvail \in BOOLEAN

NextBloom ==
    \/ \E c \in AnCodes, bfOk, up \in BOOLEAN : AddCall(c, bfOk, up)
    \/ \E c \in AnCodes, bfOk, up \in BOOLEAN : ExistsCall(c, bfOk, up)
    \/ \E up \in BOOLEAN : ResetCall(up)
    \/ SetBloomAvail

SpecBloom == InitBloom /\ [][NextBloom]_vars

\* Encode and Decode on every number below twice the number of codes of the
\* greatest length, at every length.
EncoderInputs == 0..(2 * AlphabetLen^MaxLength - 1)

InitEncoder ==
    /\ InitHandlers /\ InitNoLinks /\ InitNoCounts
    /\ bfAvail = TRUE
    /\ rd = [p \in Procs |-> NoRd]
    /\ tasks = {} /\ live = {} /\ sent = {} /\ blocked = {} /\ pvExpired = {}
    /\ finished = NoTask
    /\ recorded = [c \in AnCodes |-> 0]
    /\ visited = {}
    /\ mqProducer = "live"
    /\ \E n \in EncoderInputs, length \in MinLength..MaxLength :
          out = [op |-> "input", n |-> n, length |-> length]

NextEncoder ==
    \E n \in EncoderInputs, length \in MinLength..MaxLength : EncodeCall(n, length)

SpecEncoder == InitEncoder /\ [][NextEncoder]_vars

\* Generate calls made one after the other as in SpecRepeat, the requests
\* including one for the URL whose text is a composite key of URL 1.
KeyRequests ==
    Requests \cup {[url |-> KeyShapedURL, tmpl |-> 0, exp |-> ""]}

NextKeys ==
    \/ \E p \in Procs, r \in KeyRequests : Turn(p) /\ GenerateStart(p, r.url, r.tmpl, r.exp)
    \/ \E p \in Procs, ok \in BOOLEAN : GenGetCache(p, ok)
    \/ \E p \in Procs, ok \in BOOLEAN : GenGetByCode(p, ok)
    \/ \E p \in Procs : GenGetByURL(p, TRUE)
    \/ \E p \in Procs, ok \in BOOLEAN : GenSaveDedup(p, ok)
    \/ \E p \in Procs, up \in BOOLEAN : GenBloomExists(p, up)
    \/ \E p \in Procs, ok \in BOOLEAN : GenCheckExists(p, ok)
    \/ \E p \in Procs, ok \in BOOLEAN : GenSaveMySQL(p, ok)
    \/ \E p \in Procs, ok \in BOOLEAN : GenSaveCache1(p, ok)
    \/ \E p \in Procs, ok \in BOOLEAN : GenSaveCache2(p, ok)
    \/ \E p \in Procs, up \in BOOLEAN : GenBloomAdd(p, up)
    \/ Tick
    \/ \E e \in cache : Quiet /\ Evict(e)

SpecKeys == Init /\ [][NextKeys]_vars

\* The state a link leaves behind when it expired and was swept before its
\* cache keys reached their TTL, when the filter does not hold its code (its
\* Add had failed): no row, the two cache keys of the link of URL 1.
InitStale ==
    /\ InitHandlers /\ InitAnalytics
    /\ mqProducer = "live"
    /\ db = {}
    /\ nextId = 2
    /\ cache = {[key |-> buildCacheKey(1, 0),
                 val |-> StrOfCode(Encode(hashString(1), MinLength))],
                [key |-> StrOfCode(Encode(hashString(1), MinLength)),
                 val |-> StrOfURL(1, 0)]}
    /\ bfBits = {}
    /\ fbKeys = {}
    /\ added = {}
    /\ bfAvail \in BOOLEAN

\* Generate and Get calls made one after the other over that state, every
\* backend call failing or not, cache keys reaching their TTL between calls
NextStale ==
    \/ \E p \in Procs, r \in Requests : Turn(p) /\ GenerateStart(p, r.url, r.tmpl, r.exp)
    \/ \E p \in Procs, ok \in BOOLEAN : GenGetCache(p, ok)
    \/ \E p \in Procs, ok \in BOOLEAN : GenGetByCode(p, ok)
    \/ \E p \in Procs, ok \in BOOLEAN : GenGetByURL(p, ok)
    \/ \E p \in Procs, ok \in BOOLEAN : GenSaveDedup(p, ok)
    \/ \E p \in Procs, up \in BOOLEAN : GenBloomExists(p, up)
    \/ \E p \in Procs, ok \in BOOLEAN : GenCheckExists(p, ok)
    \/ \E p \in Procs, ok \in BOOLEAN : GenSaveMySQL(p, ok)
    \/ \E p \in Procs, ok \in BOOLEAN : GenSaveCache1(p, ok)
    \/ \E p \in Procs, ok \in BOOLEAN : GenSaveCache2(p, ok)
    \/ \E p \in Procs, up \in BOOLEAN : GenBloomAdd(p, up)
    \/ \E p \in Procs, c \in CodeInputs : Turn(p) /\ GetStart(p, c)
    \/ \E p \in Procs, ok \in BOOLEAN : GetGetCache(p, ok)
    \/ \E p \in Procs, ok \in BOOLEAN : GetGetByCode(p, ok)
    \/ \E p \in Procs, ok \in BOOLEAN : GetSaveCache(p, ok)
    \/ \E e \in cache : Quiet /\ Evict(e)

SpecStale == InitStale /\ [][NextStale]_vars

\* Redirects over a store that holds an active link for the first code and,
\* for the second code, no row, a row past its expire_at, or a disabled row.
InitMiss ==
    /\ InitAnalytics
    /\ pc = [p \in Procs |-> "idle"]
    /\ req = [p \in Procs |-> NoReq]
    /\ loc = [p \in Procs |-> NoLoc]
    /\ ret = [p \in Procs |-> NoRet]
    /\ hist = [p \in Procs |-> NoHist]
    /\ calls = 0
    /\ envs = 0
    /\ now = MaxNow
    /\ mqProducer = "live"
    /\ nextId = 3
    /\ cache = {}
    /\ bfBits = {BloomBit(Encode(0, MinLength))}
    /\ fbKeys = {}
    /\ bfAvail = TRUE
    /\ added = {Encode(0, MinLength)}
    /\ db \in {{Row(1, Encode(0, MinLength), 1, 0, {})},
               {Row(1, Encode(0, MinLength), 1, 0, {}),
                Row(2, Encode(1, MinLength), 2, 0, {0})},
               {Row(1, Encode(0, MinLength), 1, 0, {}),
                [Row(2, Encode(1, MinLength), 2, 0, {}) EXCEPT !.status = 0]}}

SpecMiss == InitMiss /\ [][NextRedirect]_vars

(* ---------------------------------------------------------------------- *)
(* Properties.                                                             *)
(* ---------------------------------------------------------------------- *)

Finished(p, op) == pc[p] = "idle" /\ ret[p].op = op

\* C1: in every reachable state, whatever the interleaving of Generate calls,
\* no two distinct rows of the durable store share a short code.
C1_UniqueCode ==
    \A r1 \in db, r2 \in db : r1.code = r2.code => r1 = r2

\* two Generate calls raced for one code without any backend error: one row
\* was stored and the other call's save was rejected
C1_Witness ==
    \E p \in Procs, q \in Procs :
        /\ envs = 0
        /\ Finished(p, "Generate") /\ ret[p].status = "ok" /\ hist[p].saved # <<>>
        /\ Finished(q, "Generate") /\ ret[q].status = "persist"
        /\ \E r \in db : r.code = hist[p].saved

C3_ResolveStatus ==
    \A p \in Procs :
        Finished(p, "Get") =>
            /\ hist[p].durable = "absent" => ret[p].status = "notfound"
            /\ hist[p].durable \in {"disabled", "expired"} => ret[p].status = "expired"

\* C4: once Add(c) has returned nil, every later Exists(c) that returns
\* without error returns true until Reset, whatever the availability of the
\* BF.* commands at the two calls.
C4_NoFalseNegative ==
    \A c \in added, up \in BOOLEAN :
        LET res == BloomExists(bfBits, fbKeys, bfAvail, up, c)
        IN  ~res[2] => res[1]

\* C5: in the collision loop a candidate is skipped only after the durable
\* store was asked about it: never on the filter's answer alone.
C5_StoreCheckedBeforeSkip ==
    \A p \in Procs : ~hist[p].skipped

\* C6: when no call is in flight and Exists(code) returns false without
\* error, no row with that code is stored.
C6_FalseMeansAbsent ==
    Quiet =>
        \A r \in db, up \in BOOLEAN :
            LET res == BloomExists(bfBits, fbKeys, bfAvail, up, r.code)
            IN  ~(~res[2] /\ ~res[1])

LoopTotal == (MaxLength - MinLength + 1) * MaxRetry

\* C7: the collision loop tries at most MaxRetry offsets at each of the
\* lengths MinLength..MaxLength in turn, each attempt at the code
\* Encode(hash + i, length); Generate fails with capacity-exhausted exactly
\* when all these attempts ended without an accepted code, and then it has
\* written to no store.
C7_BoundedLoop ==
    \A p \in Procs :
        /\ hist[p].tried <= LoopTotal
        /\ pc[p] \in {"BloomExists", "CheckExists"} =>
              /\ loc[p].length \in MinLength..MaxLength
              /\ loc[p].i \in 0..(MaxRetry - 1)
              /\ loc[p].shortCode = Encode(hashString(req[p].url) + loc[p].i, loc[p].length)
              /\ hist[p].tried = (loc[p].length - MinLength) * MaxRetry + loc[p].i
                                   + (IF pc[p] = "CheckExists" THEN 1 ELSE 0)
        /\ Finished(p, "Generate") =>
              /\ ret[p].status = "capacity" <=> (hist[p].tried = LoopTotal /\ ~hist[p].accepted)
              /\ ret[p].status = "capacity" => hist[p].writes = <<>> /\ hist[p].saved = <<>>

\* a Generate ended with capacity-exhausted after all its attempts
C7_Witness ==
    \E p \in Procs :
        Finished(p, "Generate") /\ ret[p].status = "capacity" /\ hist[p].tried = LoopTotal

\* C8: a Generate whose save to the durable store fails returns the
\* persistence error in that step and writes nothing: no row, no cache key,
\* no filter entry.
C8_PersistFailure ==
    [][\A p \in Procs :
          (pc[p] = "SaveMySQL" /\ pc'[p] \notin {"SaveMySQL", "SaveCache1"}) =>
              /\ pc'[p] = "idle"
              /\ ret'[p] = GenErr("persist")
              /\ hist'[p].writes = <<>>
              /\ db' = db /\ cache' = cache /\ bfBits' = bfBits /\ fbKeys' = fbKeys]_vars

\* a Generate returned the persistence error
C8_Witness ==
    \E p \in Procs :
        Finished(p, "Generate") /\ ret[p].status = "persist" /\ hist[p].accepted

\* C9: when the durable store's existence check of a candidate fails with an
\* error, Generate reports a persistence failure and does not accept the
\* candidate.
C9_CheckErrorPropagates ==
    \A p \in Procs :
        hist[p].chkErr => pc[p] = "idle" /\ ret[p].status = "persist"

\* C10: a failed cache write or filter add after a successful save does not
\* fail Generate, which returns the new link; a failed cache read or cache
\* population does not fail Get, which returns the stored entry.
C10_SoftFailuresAbsorbed ==
    \A p \in Procs :
        /\ (Finished(p, "Generate") /\ hist[p].softFail /\ hist[p].saved # <<>>) =>
              /\ ret[p].status = "ok"
              /\ ret[p].code = hist[p].saved
              /\ ret[p].url = StrOfURL(req[p].url, 0)
        /\ (Finished(p, "Get") /\ hist[p].softFail /\ hist[p].durable = "active") =>
              /\ ret[p].status = "ok"
              /\ \A r \in db : r.code = req[p].code => ret[p].url = StrOfURL(r.url, 0)

\* a Generate stored its row, then a cache write or the filter add failed, and
\* it returned
C10_Witness ==
    \E p \in Procs :
        Finished(p, "Generate") /\ hist[p].softFail /\ hist[p].saved # <<>>

\* C11: for one URL and two different templates T1 and T2, a Generate(url, T2)
\* is never answered with the link created for (url, T1), and the cache never
\* holds that link under the composite key of (url, T2).
C11_TemplatesNotConfused ==
    /\ \A p \in Procs, r \in db :
          ( /\ Finished(p, "Generate") /\ ret[p].status = "ok"
            /\ r.code = ret[p].code
            /\ req[p].tmpl # 0 /\ r.tmpl # 0 )
          => r.tmpl = req[p].tmpl
    /\ \A e \in cache, r \in db :
          ( /\ e.key.k = "url" /\ e.key.t # 0
            /\ e.val = StrOfCode(r.code)
            /\ r.tmpl # 0 )
          => r.tmpl = e.key.t

\* C12: a code is never reassigned: a code that one Generate persisted for a
\* URL is not persisted by a later Generate for a different URL, also after
\* the first row was swept and the filter add had failed.
C12_CodeNeverReassigned ==
    \A p \in Procs, q \in Procs :
        ( /\ hist[p].saved # <<>>
          /\ hist[q].saved = hist[p].saved )
        => req[q].url = req[p].url

\* the handler of the call made last, and of the call before it
LastHandler == ((calls - 1) % NumProcs) + 1
PrevHandler == ((calls - 2) % NumProcs) + 1

\* C13: after a successful Generate(url) that returned code c, the Resolve(c)
\* that follows it at once succeeds and returns url, with a warm and with an
\* empty cache.
C13_RoundTrip ==
    \A p \in Procs, q \in Procs :
        ( /\ calls >= 2 /\ q = LastHandler /\ p = PrevHandler
          /\ Finished(p, "Generate") /\ ret[p].status = "ok"
          /\ Finished(q, "Get") /\ req[q].code = ret[p].code )
        => /\ ret[q].status = "ok"
           /\ ret[q].url = ret[p].url

\* C14: when two concurrent Generate calls have passed the existence check
\* for one code, the save of the first stores the row, and the save of the
\* second, which finds the code stored, stores nothing: that call returns the
\* persistence error in that step, tries no other candidate and writes no
\* cache key.
C14_RaceLoserFails ==
    [][\A p \in Procs :
          (pc[p] = "SaveMySQL" /\ pc'[p] # "SaveMySQL") =>
              IF CheckExistsByCode(db, loc[p].shortCode)
              THEN /\ pc'[p] = "idle"
                   /\ ret'[p].status = "persist"
                   /\ hist'[p].writes = <<>> /\ hist'[p].saved = <<>>
                   /\ db' = db /\ cache' = cache
              ELSE /\ pc'[p] = "SaveCache1"
                   /\ Cardinality({r \in db' : r.code = loc[p].shortCode}) = 1
                   /\ hist'[p].saved = loc[p].shortCode]_vars

\* two calls for different URLs raced for one code over healthy backends: one
\* stored the row and returned it, the other returned the persistence error
\* and left no cache key for its URL
C14_Witness ==
    \E p \in Procs, q \in Procs :
        /\ envs = 0 /\ req[p].url # req[q].url
        /\ Finished(p, "Generate") /\ ret[p].status = "ok" /\ hist[p].saved # <<>>
        /\ Finished(q, "Generate") /\ ret[q].status = "persist" /\ hist[q].accepted
        /\ db = {r \in db : r.code = hist[p].saved /\ r.url = req[p].url}
        /\ CacheGet(cache, buildCacheKey(req[q].url, req[q].tmpl)) = {}

\* the handlers that serve the requests
Serving == {p \in Procs : p = 1}

\* C15: the redirect response does not wait for the analytics recording or
\* the access-log shipping.  Once Get and ExpandURL have given the target of
\* a request, the handler answers 302 whatever the goroutines and the
\* backends do, a cache or a log sink that never answers included: the
\* response step is enabled as soon as the handler is at it, and it is
\* reached.
C15_ResponseNotDelayed ==
    /\ [](\A p \in Procs : rd[p].pc = "respond" => ENABLED RedirectRespond(p))
    /\ \A p \in Serving :
          (rd[p].pc = "record") ~> (rd[p].pc = "idle" /\ rd[p].resp = "302")

\* a 302 was returned while a goroutine of the request had not run to its
\* end and a backend had stopped answering
C15_Witness ==
    \E p \in Procs :
        /\ rd[p].pc = "idle" /\ rd[p].resp = "302"
        /\ OwnTasks(p) # {}
        /\ blocked # {}

\* C16: the analytics recording a redirect starts outlives the request.
\* With backends that answer and never fail, a RecordAccess goroutine of a
\* redirect that has run to its end has applied the PV increment for the
\* code, whether the request had returned by then or not.
C16_RecordingOutlivesRequest ==
    ( /\ finished.kind = "record" /\ finished.owner # 0
      /\ blocked = {} /\ envs = 0 )
    => "pv" \in finished.applied

\* C17: the detached analytics and log tasks in flight are bounded whatever
\* the number of redirects served.  One handler serves the requests one after
\* the other, so the tasks in flight are never more than the goroutines one
\* request starts: a task of an earlier request that has not ended is not
\* joined by the tasks of a later request.
C17_BoundedTasks == Cardinality(tasks) <= GoroutinesPerRequest

\* C18: without a log sink redirects still succeed and nothing is sent.  When
\* the handler holds no producer, or a producer that is a nil pointer, a
\* redirect of a stored code that met no backend failure is answered 302, no
\* message reaches the client of the producer, and a SendAccessLog goroutine
\* that ran to its end attempted no send.
C18_NilSinkNoSend ==
    mqProducer \in {"nil", "nilptr"} =>
        /\ sent = {}
        /\ \A t \in tasks \cup {finished} : "send" \notin t.tried
        /\ mqProducer = "nil" => \A t \in tasks \cup {finished} : t.kind # "log"
        /\ \A p \in Procs :
              ( /\ rd[p].pc = "idle" /\ rd[p].id # 0 /\ envs = 0
                /\ GetShortLinkByCode(db, StrOfCode(rd[p].code)) # {} )
              => rd[p].resp = "302"

\* a redirect was answered 302 by a handler whose producer is a nil pointer,
\* and the SendAccessLog goroutine it started has run to its end
C18_Witness ==
    /\ mqProducer = "nilptr"
    /\ finished.kind = "log" /\ finished.pc = "done"
    /\ \E p \in Procs : rd[p].pc = "idle" /\ rd[p].resp = "302" /\ rd[p].id = finished.id

\* the updates RecordAccess makes for a referer
RequiredUpdates(ref) ==
    {"pv", "uv"} \cup (IF extractSource(ref) = "" THEN {} ELSE {"source"})

\* C19: RecordAccess never fails and its three updates are independent.  A
\* call that has returned has returned nil and has attempted the PV
\* increment, the UV add and, for a referer with a source, the source
\* increment, whichever of them failed; every update that did not fail
\* itself is in the counters.
C19_UpdatesIndependent ==
    ( finished.kind = "record" /\ finished.owner = 0 ) =>
        /\ finished.pc = "done"
        /\ finished.tried = RequiredUpdates(finished.ref)
        /\ "pv" \in finished.applied => GetStatsPV(pv, finished.code) >= 1
        /\ "uv" \in finished.applied =>
              [code |-> finished.code, day |-> now,
               visitor |-> VisitorID(finished.vday, finished.ip)] \in uv
        /\ "source" \in finished.applied =>
              src[<<finished.code, extractSource(finished.ref), now>>] >= 1

\* a call has returned whose PV increment failed and whose UV add and source
\* increment were applied
C19_Witness ==
    /\ finished.kind = "record" /\ finished.owner = 0
    /\ finished.tried = {"pv", "uv", "source"}
    /\ finished.applied = {"uv", "source"}
    /\ GetStatsPV(pv, finished.code) = 0
    /\ src[<<finished.code, extractSource(finished.ref), now>>] = 1

C21_PVMonotonic ==
    [][\A c \in AnCodes : GetStatsPV(pv', c) >= GetStatsPV(pv, c)]_vars

\* C22: uv counts the distinct visitors of each day.  A read of the
\* statistics made when every visit has been recorded and no per-day set
\* has expired reports as uv the number of distinct pairs of day and client
\* IP among the visits: one for any number of visits of a client on a day,
\* n for n clients, two for one client on two days.
C22_UVCountsDailyVisitors ==
    \A c \in AnCodes :
        ( /\ out.op = "GetStats" /\ out.code = c
          /\ tasks = {} /\ envs = 0
          /\ out = GetStats(pv, uv, c, FALSE, FALSE, {}) )
        => out.uv = Cardinality({<<v.day, v.ip>> : v \in {w \in visited : w.code = c}})

\* C23: GetStats never fails.  When the read of the PV counter fails the
\* result has pv = 0 and the uv that was read, when the read of the UV sets
\* fails it has uv = 0 and the pv that was read, and in all four combinations
\* of the two the call returns no error.
C23_GetStatsNeverFails ==
    [][out'.op = "GetStats" =>
          \A pvFail, scanFail \in BOOLEAN, skipped \in SUBSET Days :
              GetStatsCall(out'.code, pvFail, scanFail, skipped) =>
                  /\ out'.err = FALSE
                  /\ out'.pv = (IF pvFail THEN 0 ELSE pv[out'.code])
                  /\ out'.uv = (IF scanFail THEN 0
                                ELSE Cardinality({e \in uv : /\ e.code = out'.code
                                                             /\ e.day \notin skipped}))]_vars

\* a GetStats whose read of the PV counter failed returned the visitors, and
\* one whose read of the visitors failed returned the PV count
C23_Witness ==
    /\ out.op = "GetStats" /\ out.err = FALSE
    /\ pv[out.code] > 0 /\ Cardinality({e \in uv : e.code = out.code}) > 0
    /\ \/ out.pv = 0 /\ out.uv = Cardinality({e \in uv : e.code = out.code})
       \/ out.uv = 0 /\ out.pv = pv[out.code]

\* C24: GetAnalytics does not fail because the read of the source counters
\* failed: it then returns the pv and uv GetStats returns for the same reads,
\* an empty list of sources and no error.
C24_SourcesErrorTolerated ==
    [][(out'.op = "GetAnalytics" /\ out'.logged) =>
          \A pvFail, scanFail \in BOOLEAN, skipped \in SUBSET Days,
             unread \in SUBSET {e.key : e \in SourceKeys(src)} :
              GetAnalyticsCall(out'.code, pvFail, scanFail, skipped, TRUE, unread) =>
                  /\ out'.err = FALSE
                  /\ out'.pv = GetStats(pv, uv, out'.code, pvFail, scanFail, skipped).pv
                  /\ out'.uv = GetStats(pv, uv, out'.code, pvFail, scanFail, skipped).uv
                  /\ out'.top = <<>>]_vars

\* a GetAnalytics of a code with visits and a source counter returned the
\* counts and no source
C24_Witness ==
    /\ out.op = "GetAnalytics" /\ out.logged /\ out.err = FALSE
    /\ out.top = <<>> /\ out.pv > 0 /\ out.uv > 0
    /\ \E k \in DOMAIN src : k[1] = out.code /\ src[k] > 0

\* the count of a source of a code, added over the days up to d
RECURSIVE HitsUpTo(_, _, _)
HitsUpTo(c, label, d) ==
    IF d < 0 THEN 0 ELSE src[<<c, label, d>>] + HitsUpTo(c, label, d - 1)

\* the sources of a code that have a counter
Counted(c) == {l \in Labels : HitsUpTo(c, l, MaxNow) > 0}

\* the list holds every source at most once with its count added over the
\* days, in an order of non-increasing counts, min(limit, number of sources)
\* long, and no source left out has a greater count than a listed one
IsTopList(top, c, limit) ==
    /\ \A i \in 1..Len(top) :
          \E l \in Counted(c) : top[i].source = Segs(l) /\ top[i].count = HitsUpTo(c, l, MaxNow)
    /\ \A i, j \in 1..Len(top) : top[i].source = top[j].source => i = j
    /\ \A i, j \in 1..Len(top) : i < j => top[i].count >= top[j].count
    /\ Len(top) = (IF limit < Cardinality(Counted(c)) THEN limit ELSE Cardinality(Counted(c)))
    /\ \A l \in Counted(c) :
          (\A i \in 1..Len(top) : top[i].source # Segs(l)) =>
              \A i \in 1..Len(top) : HitsUpTo(c, l, MaxNow) <= top[i].count

\* C25: the list of top sources GetAnalytics returns holds each source at
\* most once with its count merged across the days, is ordered by
\* non-increasing count, has min(10, number of sources) entries, and every
\* source left out has a count no greater than every listed one; so has the
\* list getTopSources makes for any other limit.
C25_TopSources ==
    /\ (out.op = "GetAnalytics" /\ ~out.logged) => IsTopList(out.top, out.code, TopN)
    /\ out.op = "getTopSources" => IsTopList(out.top, out.code, out.limit)

\* a list was cut: a source with a count was left out of it, and the listed
\* ones have different counts, one of them of a host with a port merged over
\* two days
C25_Witness ==
    /\ out.op = "getTopSources"
    /\ Len(out.top) = out.limit /\ out.limit > 1
    /\ Cardinality(Counted(out.code)) > out.limit
    /\ out.top[1].count > out.top[2].count
    /\ \E i \in 1..Len(out.top) :
          out.top[i].source = Segs("localhost:8080") /\ out.top[i].count > 1

\* the stored link of a code
LinkOf(c) == First(GetShortLinkByCode(db, StrOfCode(c)))

\* the text holds the key with the value, and with no other value
HasPair(text, key, val) ==
    /\ \E i \in 1..Len(text.query) : text.query[i].key = key /\ text.query[i].val = val
    /\ \A i \in 1..Len(text.query) : text.query[i].key = key => text.query[i].val = val

\* C26: ExpandURL merges the query parameters of the request into the query
\* string of the stored URL, the last writer winning: every supplied key is
\* in the result with exactly the supplied value, every stored key that was
\* not supplied keeps its stored value, and a failed Get is returned
\* unchanged, without a URL.
C26_ExpandMerges ==
    out.op = "ExpandURL" =>
        IF out.status = "ok"
        THEN /\ \A k \in DOMAIN out.params : HasPair(out.url, k, out.params[k])
             /\ \A j \in 1..Len(StoredQuery(LinkOf(out.code).url)) :
                   LET p == StoredQuery(LinkOf(out.code).url)[j]
                   IN  p.key \notin DOMAIN out.params => HasPair(out.url, p.key, p.val)
        ELSE out.status \in {"notfound", "expired"} /\ out.url = Text(0, <<>>)

C28_TemplateMerged ==
    (out.op = "ExpandURL" /\ out.status = "ok" /\ StoredTemplate(db, out.code) # 0) =>
        \A k \in DOMAIN TemplateParams(StoredTemplate(db, out.code)) :
            HasPair(out.url, k, TemplateParams(StoredTemplate(db, out.code))[k])

\* C29: Reset clears all membership state: the Exists that follows a Reset
\* answers false for every code, and so for every code added before the
\* Reset, whether it was recorded in the filter or under a fallback key.
C29_ResetClearsAll ==
    [][(out.op = "Reset" /\ ~out.err /\ out'.op = "Exists" /\ ~out'.err)
          => out'.result = FALSE]_vars

\* C30: the Bloom service does not turn a transport error into the answer
\* "absent".  Exists returns false without an error only when one of its two
\* look-ups was answered and did not find the code: BF.EXISTS in the filter,
\* or EXISTS of the fallback key.  When a call reaches the store on neither
\* path, Exists and Add return an error, and Add records nothing.
C30_ErrorsSurfaced ==
    [][/\ out'.op = "Exists" =>
            \A bfOk, up \in BOOLEAN :
                ExistsCall(out'.code, bfOk, up) =>
                    /\ ~up => out'.err
                    /\ (~out'.err /\ ~out'.result) =>
                          \/ up /\ bfAvail /\ bfOk /\ BloomBit(out'.code) \notin bfBits
                          \/ up /\ ~(bfAvail /\ bfOk) /\ out'.code \notin fbKeys
       /\ out'.op = "Add" =>
            \A bfOk, up \in BOOLEAN :
                (AddCall(out'.code, bfOk, up) /\ ~up) =>
                    (out'.err /\ bfBits' = bfBits /\ fbKeys' = fbKeys)]_vars

\* an Exists that did not reach the store returned an error for a code that
\* is recorded in the filter and under a fallback key
C30_Witness ==
    /\ out.op = "Exists" /\ out.err /\ ~out.result
    /\ BloomBit(out.code) \in bfBits /\ out.code \in fbKeys

\* C31: Generate with an empty url returns the invalid-URL error, and
\* Generate with a malformed expire_at returns an error, before any backend
\* is touched: the call returns in the step it is made, without a backend
\* step, and rows, cache keys, filter and fallback keys are as they were.
C31_RejectedBeforeBackends ==
    [][calls' = calls + 1 =>
          \A p \in Procs, r \in Requests :
              (GenerateStart(p, r.url, r.tmpl, r.exp) /\ (r.url = 0 \/ r.exp = "invalid")) =>
                  /\ pc'[p] = "idle"
                  /\ ret'[p].op = "Generate"
                  /\ ret'[p].status = (IF r.url = 0 THEN "invalid" ELSE "badexpire")
                  /\ hist'[p].writes = <<>> /\ hist'[p].tried = 0
                  /\ db' = db /\ cache' = cache /\ bfBits' = bfBits /\ fbKeys' = fbKeys]_vars

\* a Generate with a malformed expire_at was rejected while a row and cache
\* keys were stored
C31_Witness ==
    \E p \in Procs :
        /\ Finished(p, "Generate") /\ ret[p].status = "badexpire"
        /\ req[p].url # 0 /\ req[p].exp = "invalid"
        /\ db # {} /\ cache # {}

\* C32: the encoder round trip.  For every length L from MinLength to
\* MaxLength and every n, Decode(Encode(n, L)) is n modulo the number of
\* codes of length L, Encode(n, L) is Encode(n mod that number, L), and the
\* code has exactly L characters, all of the alphabet.
C32_RoundTrip ==
    out.op = "Encode" =>
        /\ out.decoded = <<out.n % (AlphabetLen^out.length), FALSE>>
        /\ out.code = EncodeText(out.n % (AlphabetLen^out.length), out.length)
        /\ Len(out.code) = out.length
        /\ \A i \in 1..Len(out.code) :
              \E j \in 1..AlphabetLen : out.code[i] = Base32Alphabet[j]

\* a number that is not below the number of codes of its length was encoded
\* to a code with different characters
C32_Witness ==
    /\ out.op = "Encode"
    /\ out.n >= AlphabetLen^out.length
    /\ out.length > MinLength
    /\ \E i, j \in 1..Len(out.code) : out.code[i] # out.code[j]
    /\ out.decoded[1] # 0 /\ out.decoded[1] # out.n


\* the cache keys a step has written
Written == {e \in cache' : e \notin cache}

\* C33: the side effects of a Generate for a new link come in a fixed order,
\* each after the one before it: the row in the durable store, the composite
\* key -> code mapping, the code -> url mapping, the filter add.  Generate
\* writes a code -> url mapping, and adds to the filter, only for the code it
\* has stored a row for, also when calls of the backends fail midway.
C33_PersistFirst ==
    [][\A p \in Procs :
          (req[p].op = "Generate" /\ pc[p] # "idle" /\ hist'[p].writes # hist[p].writes) =>
              LET before == hist[p].writes
                  step   == hist'[p].writes[Len(hist'[p].writes)]
              IN  /\ hist'[p].writes = Append(before, step)
                  /\ step = "db" =>
                        /\ before = <<>>
                        /\ \E r \in db' : r \notin db /\ r.code = hist'[p].saved
                  /\ step = "key" =>
                        \/ before = <<"db">>
                        \/ before = <<>> /\ hist[p].saved = <<>> /\ pc[p] = "SaveDedup"
                  /\ step = "code" =>
                        /\ before \in {<<"db">>, <<"db", "key">>}
                        /\ hist[p].saved = loc[p].shortCode
                        /\ Written \subseteq {[key |-> StrOfCode(hist[p].saved),
                                                val |-> StrOfURL(req[p].url, 0)]}
                        /\ [key |-> StrOfCode(hist[p].saved),
                            val |-> StrOfURL(req[p].url, 0)] \in cache'
                  /\ step = "bloom" =>
                        /\ before[1] = "db" /\ "bloom" \notin {before[i] : i \in 1..Len(before)}
                        /\ hist[p].saved = loc[p].shortCode
                        /\ added' \subseteq added \cup {hist[p].saved}]_vars

\* a Generate has stored a row, then written the two cache keys, then added
\* the code to the filter, and the cache holds the code with the url
C33_Witness ==
    \E p \in Procs :
        /\ Finished(p, "Generate") /\ ret[p].status = "ok"
        /\ hist[p].writes = <<"db", "key", "code", "bloom">>
        /\ [key |-> StrOfCode(hist[p].saved), val |-> StrOfURL(req[p].url, 0)] \in cache


\* C34: Get on a cache hit returns the code with the cached URL in that
\* step, without a look-up in the durable store and whatever the status and
\* expiry of the row; on a miss it writes the code -> url key only after the
\* look-up found an active row, with the URL of that row, and it writes
\* nothing when the row is missing, disabled or expired.
C34_ResolveFrame ==
    [][\A p \in Procs :
          (req[p].op = "Get" /\ pc[p] # "idle" /\ pc'[p] # pc[p]) =>
              LET key == StrOfCode(req[p].code)
                  hit == CacheGet(cache, key)
              IN  /\ (pc[p] = "rGetCache" /\ envs' = envs /\ hit # {}) =>
                        /\ pc'[p] = "idle"
                        /\ \E v \in hit : ret'[p] = GetOk(req[p].code, v)
                        /\ cache' = cache /\ hist'[p].writes = <<>>
                  /\ pc'[p] = "rSaveCache" =>
                        \E r \in db : /\ r.code = req[p].code /\ r.status = 1
                                       /\ \A e \in r.expireAt : now <= e
                                       /\ loc'[p].cached = StrOfURL(r.url, 0)
                  /\ cache' # cache =>
                        /\ pc[p] = "rSaveCache"
                        /\ hist[p].durable = "active"
                        /\ \E r \in db : /\ r.code = req[p].code
                                         /\ Written = {[key |-> key, val |-> StrOfURL(r.url, 0)]}
                  /\ (pc'[p] = "idle" /\ ret'[p].status # "ok") =>
                        /\ cache' = cache /\ hist'[p].writes = <<>>
                        /\ hist'[p].durable # "active"
                  /\ db' = db]_vars

\* a Get has returned the cached URL of a code whose row is expired, disabled
\* or swept
C34_Witness ==
    \E p \in Procs :
        /\ Finished(p, "Get") /\ ret[p].status = "ok"
        /\ hist[p].durable \in {"absent", "disabled", "expired"}
        /\ hist[p].writes = <<>>
        /\ CacheGet(cache, StrOfCode(req[p].code)) # {}


\* the candidates of the collision loop for a URL, in the order of the loop
Candidates(u) ==
    [k \in 1..((MaxLength - MinLength + 1) * MaxRetry) |->
        Encode(hashString(u) + ((k - 1) % MaxRetry), MinLength + ((k - 1) \div MaxRetry))]

\* the first candidate of a URL no row is stored for, <<>> when there is none
FirstFree(d, u) ==
    LET free == {k \in DOMAIN Candidates(u) : ~CheckExistsByCode(d, Candidates(u)[k])}
    IN  IF free = {} THEN <<>>
        ELSE Candidates(u)[CHOOSE k \in free : \A j \in free : k <= j]

\* C35: the collision loop accepts the first free candidate of its fixed
\* order, lengths MinLength to MaxLength and offsets from 0 over the hash of
\* the URL: the code a Generate stores is Encode(hash + i, length) for the
\* smallest (length, i) whose code no row is stored for.
C35_FirstFreeCandidate ==
    [][\A p \in Procs :
          (pc[p] = "SaveMySQL" /\ pc'[p] = "SaveCache1") =>
              loc[p].shortCode = FirstFree(db, req[p].url)]_vars


\* C36: a Generate that answers with an existing link, from the cached
\* composite key or from the look-up by URL, answers with an active one: its
\* row has status 1 and an expire_at that is absent or not yet passed.
C36_ExistingIsActive ==
    [][\A p \in Procs :
          (/\ req[p].op = "Generate" /\ pc[p] \in {"GetByCode", "SaveDedup"}
           /\ pc'[p] = "idle" /\ ret'[p].status = "ok") =>
              \E r \in db : r.code = ret'[p].code /\ IsActive(r, now)]_vars


\* C37: in every reachable state at most one active row is stored for an
\* original URL, also when Generate calls for one URL run concurrently and
\* all miss the cache and the look-up by URL before one of them stores its row.
C37_OneActivePerURL ==
    \A r1 \in db, r2 \in db :
        (r1.url = r2.url /\ IsActive(r1, now) /\ IsActive(r2, now)) => r1 = r2


\* C38: every successful Generate answers with the original URL of its
\* request, whatever the cache holds: a request is never answered with the
\* link of a different URL, also when the composite cache keys of the two
\* requests are the same string.
C38_ResponseCarriesRequestedURL ==
    \A p \in Procs :
        (Finished(p, "Generate") /\ ret[p].status = "ok") =>
            ret[p].url = StrOfURL(req[p].url, 0)


\* C39: whenever Get(c) succeeds, the URL it returns is the original URL of
\* the row stored for code c: the cache answers a code with no value written
\* for another key and with no URL of an earlier holder of the code.
C39_ResolveReturnsPersistedURL ==
    [][\A p \in Procs :
          (/\ req[p].op = "Get" /\ pc[p] # "idle"
           /\ pc'[p] = "idle" /\ ret'[p].status = "ok") =>
              \A r \in db : r.code = req[p].code => ret'[p].url = StrOfURL(r.url, 0)]_vars


\* a Get of the code would succeed: the cache holds the code or an active row
\* is stored for it
Resolvable(c) ==
    \/ CacheGet(cache, StrOfCode(c)) # {}
    \/ \E r \in db : r.code = c /\ IsActive(r, now)

====
